---- MODULE Spec2Model ----
(***************************************************************************)
(* Model of the localscribe recorder: the supervisor of                    *)
(* internal/record/run.go (runTranscription), its send / recv workers,     *)
(* the STT client of localdsmc/internal/client/websocket.go, the audio     *)
(* queue, and the diagnostic tracker of internal/diagnostics/tracker.go.   *)
(*                                                                         *)
(* Spec        the session seen from the supervisor and the recv workers.  *)
(* SendSpec    the session seen from the audio device and the send workers.*)
(* ErrSpec     both workers, with transport failures and the stop signal.  *)
(* TrackerSpec the tracker and the dead-air watchdog on a discrete clock.  *)
(* S4Spec      the dead-air scenario S4, second by second.                 *)
(* IntervalSpec, WatchdogSpec  the watchdog's interval, and its tick step  *)
(*             by step next to the supervisor.                             *)
(* WriterSpec  the calls of the transcript writer                          *)
(*             (localdsmc/internal/writer/filewriter.go), step by step.    *)
(* PostSpec    the recv loop feeding the post-processor and the writer,    *)
(*             next to the heartbeat.                                      *)
(* HeartbeatSpec  the heartbeat goroutine and its ticker, tenth of a second *)
(*             by tenth of a second.                                       *)
(* DetectorSpec, FairDetectorSpec  the meeting detector of                 *)
(*             internal/meetings and its callbacks.                        *)
(* PluginSpec  Execute and executePlugin of internal/plugins/runner.go,    *)
(*             second by second.                                           *)
(* PeriodicSpec  the periodic loops of the plugin runner.                  *)
(* QueueSpec   the audio callback filling the queue.                       *)
(* MeetingsSpec  findMeetingIntervals of internal/last/run.go.             *)
(* WindowSpec, MeetSpec, LastSpec  the query tool, Run of                  *)
(*             internal/last/run.go: the time units, the meetings unit,    *)
(*             and the whole run from the files on.                        *)
(* EpisodeSpec the session with dead-air signals next to worker errors.    *)
(* FlushSpec   the final flush next to the heartbeat and a recv worker.    *)
(* Goroutines interleave step by step; time passes where a specification   *)
(* has a clock.                                                            *)
(***************************************************************************)
EXTENDS Integers, Sequences, FiniteSets, TLC

(***************************************************************************)
(* Bounds of the model.                                                    *)
(***************************************************************************)
MaxFrames == 2
MaxReconnects == 1
MaxAttempts == 8
MaxTime == 5
MaxWords == 2
MaxThresholdMs == 2500
MaxCalls == 2
MaxWriterTime == 3
MaxMsgs == 3
MaxMeta == 1
MaxPostTime == 3
MaxHbTime == 34
MaxChunks == 52
MaxMeetings == 3
MaxPlTime == 6
MaxTicks == 3
MaxLines == 5
MaxShown == 3
MaxMeetLines == 4
MaxFileLines == 3

(***************************************************************************)
(* Program constants.                                                      *)
(***************************************************************************)
InitialDelay == 1
MaxDelay == 60
ChannelBufferSize == 50
audioMinActiveRMS == 20000
audioBaselineMinValue == 10000
audioActiveMinStreak == 5
StepWindow == 5
Second == 1000
MinInterval == 100
DeadAirCap == 1
FlushSize == 200
FlushInterval == 2
PauseThreshold == 2
MaxLineLength == 80
TickerCap == 1
DefaultTimeout == 5
zoomThreshold == 2
meetThreshold == 10
Tenths == 10
UnitMinutes == 0
UnitHours == 1
UnitDays == 2
UnitWeeks == 3
UnitMonths == 4
UnitMeetings == 5

Gens == 1..(MaxReconnects + 1)
Frames == 1..MaxFrames
NoFrame == 0
NilConn == 0
NoHolder == 0
MsgKinds == {"word", "eot", "other"}

VARIABLES
  \* supervisor (main goroutine of runTranscription)
  pc,            \* position of the supervisor in runTranscription
  exitCause,     \* which path led to shutdown / return
  reason,        \* reconnect(reason): what the reconnect in progress is for
  gen,           \* generation of the current workers (0 = none started)
  attempt,       \* Reconnect: attempt
  delay,         \* Reconnect: delay, in seconds
  \* client.Client
  conn,          \* c.conn: id of the connection, NilConn = nil
  closed,        \* c.closed
  mu,            \* c.mu: NoHolder, or the send worker holding it
  open,          \* connections dialled and not yet closed locally
  broken,        \* open connections whose transport has failed
  dials,         \* number of successful dials so far
  \* channels and flags of runTranscription
  stopClosed,    \* stopChan is closed
  stopDuringReconnect, \* stopChan was closed during a backoff sleep or a dial
  ctxCancelled,  \* reconnectCtx is cancelled
  doneClosed,    \* done is closed
  workerDone,    \* the current workerDone channel is closed
  workerErr,     \* errors buffered in the current workerErr channel (capacity 2)
  deadAirCh,     \* number of signals buffered in deadAirCh (capacity 1)
  paused,
  reconnecting,
  \* audio.Capture
  capturing,     \* the portaudio stream is running
  queue,         \* c.chunks
  nextFrame,     \* next frame the device will deliver
  \* workers
  sw,            \* sw[g]: send worker of generation g
  rw,            \* rw[g]: recv worker of generation g
  \* observations
  submitted,     \* frames in the order SendAudio took c.mu for them
  wire,          \* frames in the order WriteMessage wrote them
  sendErrs,      \* frames whose send error reached RecordSendError
  chunksDropped,
  dropped,       \* frames that went through RecordChunkDropped
  skipCond,      \* frames for which shouldSkip read paused or reconnecting as set
  panic,         \* "none", or the client method whose nil c.conn killed the process
  \* the clock and the configuration
  now,           \* time.Now(), in seconds since the start
  threshold,     \* cfg.DeadAirReset, in seconds
  \* diagnostics.Tracker
  lastConnectAt,
  lastStepAt,
  lastAudioActiveAt,
  lastWordAt,
  lastAudioLevel,      \* RMS levels are in millionths
  audioActiveStreak,
  audioBaseline,
  audioBaselineCount,
  \* what has happened in the current second
  framesInSecond,
  stepsInSecond,
  watchdogTicked,
  \* the dead-air watchdog, step by step
  thresholdMs,   \* cfg.DeadAirReset, in milliseconds
  interval,      \* the ticker's interval, in milliseconds (0 = watchdog not started)
  wd,            \* position of the watchdog goroutine, what shouldSkip has read
  \* writer.FileWriter and writer.MultiWriter
  disk,          \* the transcript file: the chunks written to it, in order
  handleOpen,    \* w.file is an open handle
  reopenOnFlush, \* w.opts.ReopenOnFlush
  mmu,           \* MultiWriter.mu: NoProducer, or the producer holding it
  fmu,           \* FileWriter.mu: NoProducer, or the producer holding it
  bytesWritten,  \* w.bytesWritten
  lastFlush,     \* w.lastFlush, in seconds
  synced,        \* length of the file at the last file.Sync()
  wr,            \* position of every producer in its call of the writer
  calls,         \* the calls submitted so far: producer, size, calls returned before
  returned,      \* the calls that have returned
  \* processor.PostProcessor
  hasContent,
  lastWord,
  lastWordTime,  \* in seconds, NoTime = the zero time
  currentLine,
  \* the recv loop's handling of Word and Step messages
  rv,            \* position of the recv loop, the output it is about to write
  received,      \* number of messages handled
  transcript,    \* the calls of the writer that have completed: producer, data
  said,          \* the words passed to ProcessWord that were not blank, trimmed
  gap,           \* a word came more than PauseThreshold after the one before
  turns,         \* a Step was an end of turn
  \* the sidecars' stop signals and the end of the shutdown sequence
  heartbeatDone,     \* heartbeatDone is closed
  periodicStopped,   \* pluginRunner.StopPeriodic() has been called
  pluginCancelled,   \* pluginCancel() has been called
  meetingCancelled,  \* meetingDetectorCancel() has been called
  finalFlush,        \* the final newline is written and multiWriter.Flush() has returned
  \* the heartbeat goroutine, on a clock of tenths of a second
  heartbeatInterval, \* cfg.Metadata.HeartbeatInterval, in seconds
  hbPc,              \* position of the heartbeat goroutine
  hbTickCh,          \* ticks buffered in ticker.C (capacity 1)
  hbNow,             \* the time, in tenths of a second
  hbStart,           \* when the ticker was created
  hbStopAt,          \* when heartbeatDone was closed
  \* the audio callback
  overflowed,        \* number of chunks the callback found the channel full for
  \* the meeting detector
  zoomDetection,     \* cfg.Metadata.ZoomDetection
  meetDetection,     \* cfg.Metadata.MeetDetection
  detPc,             \* Detector.Start: "off", "scan" (reading lsof), "done"
  state,             \* d.state: ZoomInMeeting, MeetInMeeting
  lastLevel,         \* zoomInMeeting, meetInMeeting of the last batch processed
  cbLog,             \* per platform, the callbacks invoked so far, in order
  \* the plugin runner: Execute and executePlugin
  plTrigger,         \* per plugin, its trigger
  plTimeout,         \* per plugin, its timeout in seconds, 0 when it configures none
  exPc,              \* Execute: "idle", "wait" (wg.Wait), "returned"
  plPc,              \* executePlugin: "idle", "start", "read", "wait", "write", "returned"
  proc,              \* the sh process: "none", "running", "exit0", "exit1", "killed"
  pipeHeld,            \* a descendant of sh holds the write end of the stdout pipe
  stdoutLines,       \* per plugin, the lines its scanner has read
  plIdx,             \* per plugin, the position of the loop over stdoutLines
  plLog,             \* per plugin, what executePlugin has printed to stderr
  plStart,           \* per plugin, when executePlugin was entered
  plEnd,             \* per plugin, when executePlugin returned
  plNow,             \* the clock of the plugin runner, in seconds
  \* the plugin runner: the periodic loops
  perInterval,       \* per plugin, its interval in seconds
  perPc,             \* per plugin, its loop: "off", "select", "exec", "returned"
  perDone,           \* per plugin, its done channel is closed
  perTick,           \* per plugin, the ticks waiting in ticker.C
  perExecs,          \* per plugin, the calls of executePlugin by its loop
  ticks,             \* the ticks of all tickers so far
  \* the query tool
  all,               \* the parsed lines given to findMeetingIntervals
  intervals,         \* the intervals it has returned
  lastPc,            \* "input" before the call, "done" after it
  corpus,            \* the transcript file: the time in its name and its raw lines
  args,              \* N, the unit, --asof given, --keepmeta, the date of currentTime
  allLines,          \* Run: allLines
  stdout,            \* the Raw of the lines printed, in order
  runPc,             \* Run: "off", "read", "sort", "filter", "done", "panic"
  \* the dead-air signal
  deadAirGen         \* generation of the workers when the signal in deadAirCh was sent

sessVars == <<pc, exitCause, reason, gen, attempt, delay, conn, closed, mu, open, broken,
              dials, stopClosed, stopDuringReconnect, ctxCancelled, doneClosed,
              workerDone, workerErr, deadAirCh, paused, reconnecting, capturing, queue, nextFrame,
              sw, rw, submitted, wire, sendErrs, chunksDropped,
              dropped, skipCond, panic>>

timeVars == <<now, threshold>>
levelVars == <<lastAudioLevel, audioActiveStreak, audioBaseline, audioBaselineCount>>
trkVars == <<lastConnectAt, lastStepAt, lastAudioActiveAt, lastWordAt, levelVars>>
scriptVars == <<framesInSecond, stepsInSecond, watchdogTicked>>
wdVars == <<thresholdMs, interval, wd>>
writerVars == <<disk, handleOpen, reopenOnFlush, mmu, fmu, bytesWritten, lastFlush,
                synced, wr, calls, returned>>
ppVars == <<hasContent, lastWord, lastWordTime, currentLine>>
recvVars == <<rv, received, transcript, said, gap, turns>>
sideVars == <<heartbeatDone, periodicStopped, pluginCancelled, meetingCancelled,
              finalFlush>>
hbVars == <<heartbeatInterval, hbPc, hbTickCh, hbNow, hbStart, hbStopAt>>
detVars == <<zoomDetection, meetDetection, detPc, state, lastLevel, cbLog>>
plVars == <<plTrigger, plTimeout, exPc, plPc, proc, pipeHeld, stdoutLines, plIdx, plLog,
            plStart, plEnd, plNow>>
perVars == <<perInterval, perPc, perDone, perTick, perExecs, ticks>>
queryVars == <<corpus, args, allLines, stdout, runPc>>
lastVars == <<all, intervals, lastPc, queryVars, deadAirGen>>
lateVars == <<detVars, plVars, perVars, lastVars>>
extVars == <<sideVars, hbVars, overflowed, lateVars>>
compVars == <<wdVars, writerVars, ppVars, recvVars, extVars>>
restVars == <<scriptVars, compVars>>
diagVars == <<timeVars, trkVars, restVars>>

vars == <<sessVars, diagVars>>

Min(a, b) == IF a < b THEN a ELSE b

Range(s) == {s[i] : i \in 1..Len(s)}

RECURSIVE Pow2(_)
Pow2(n) == IF n = 0 THEN 1 ELSE 2 * Pow2(n - 1)

(***************************************************************************)
(* The session: initial state.                                             *)
(***************************************************************************)
\* f: the frame in hand; c: paused or reconnecting held when it was taken;
\* p: shouldSkip's p; ok: neither held when it was submitted to SendAudio
NoSend == [pc |-> "none", f |-> NoFrame, c |-> FALSE, p |-> FALSE, ok |-> FALSE]
NoRecv == [pc |-> "none", rc |-> NilConn, msg |-> "none"]

SessInit ==
  /\ pc = "Idle" /\ exitCause = "none" /\ reason = "none" /\ gen = 0
  /\ attempt = 0 /\ delay = 0
  /\ conn = NilConn /\ closed = FALSE /\ mu = NoHolder
  /\ open = {} /\ broken = {} /\ dials = 0
  /\ stopClosed = FALSE /\ stopDuringReconnect = FALSE
  /\ ctxCancelled = FALSE /\ doneClosed = FALSE
  /\ workerDone = FALSE
  /\ workerErr = 0
  /\ deadAirCh = 0
  /\ paused = FALSE /\ reconnecting = FALSE
  /\ capturing = FALSE /\ queue = <<>> /\ nextFrame = 1
  /\ sw = [g \in Gens |-> NoSend]
  /\ rw = [g \in Gens |-> NoRecv]
  /\ submitted = <<>> /\ wire = <<>> /\ sendErrs = {}
  /\ chunksDropped = 0 /\ dropped = {} /\ skipCond = {}
  /\ panic = "none"

\* The process is running: no panic, runTranscription has not returned.
Alive == panic = "none" /\ pc # "Exited"

\* The goroutines started after capture.Start (watchdog, pause handler) run
\* until done is closed.
Helpers == Alive /\ gen >= 1 /\ ~doneClosed

MuFree == mu = NoHolder

\* The workerDone channel the workers of generation g captured is closed.  The
\* supervisor replaces workerDone and workerErr on every successful reconnect
\* (run.go:552), after it closed the previous workerDone (run.go:521).
WorkerDoneClosed(g) == g < gen \/ workerDone

\* if !wsClient.IsClosed() { workerErr <- err }, by a worker of generation g.
\* Nothing ever receives from the workerErr channel of an earlier generation.
PostWorkerErr(g) == IF ~closed /\ g = gen THEN workerErr + 1 ELSE workerErr

\* shouldSkip that forgets the reconnecting flag
ShouldSkipPausedOnly(p, r) == p

\* shouldSkip: p || r
ShouldSkip(p, r) == p \/ r

\* the backoff without its cap
BackoffNoCap(d) == d * 2

\* Reconnect: delay *= 2; if delay > maxDelay { delay = maxDelay }
BackoffNext(d) == IF d * 2 > MaxDelay THEN MaxDelay ELSE d * 2

\* a Reconnect that forgets to close the connection it replaces
CloseConnLeak(o, c) == o

\* conn.Close() of connection c
CloseConn(o, c) == o \ {c}

clientVars == <<conn, closed, mu, open, broken, dials>>
stopVars == <<stopClosed, stopDuringReconnect>>
chanVars == <<stopVars, ctxCancelled, doneClosed, workerDone, workerErr, deadAirCh>>
flagVars == <<paused, reconnecting>>
audioVars == <<capturing, queue, nextFrame>>
workerVars == <<sw, rw>>
obsVars == <<submitted, wire, sendErrs, chunksDropped, dropped, skipCond>>
supVars == <<pc, exitCause, reason, gen, attempt, delay>>

(***************************************************************************)
(* diagnostics.Tracker.  A time.Time is a number of seconds, NoTime the    *)
(* zero time; an RMS level is a number of millionths.                      *)
(***************************************************************************)
NoTime == 0 - 1

\* the levels of the tracker's tests (0.05, 0.2) and one below the floor (0.005)
Levels == {5000, 50000, 200000}

DiagInit ==
  /\ now = 0
  /\ lastConnectAt = NoTime /\ lastStepAt = NoTime
  /\ lastAudioActiveAt = NoTime /\ lastWordAt = NoTime
  /\ lastAudioLevel = 0 /\ audioActiveStreak = 0
  /\ audioBaseline = 0 /\ audioBaselineCount = 0
  /\ framesInSecond = 0 /\ stepsInSecond = 0 /\ watchdogTicked = FALSE

\* the watchdog goroutine before it is started
NoWatchdog == [pc |-> "wait", p |-> FALSE]

WdInit == interval = 0 /\ wd = NoWatchdog

\* the goroutines that write to the transcript: the recv loop (Write), the
\* heartbeat (WriteMetadata) and the main goroutine (Flush)
Producers == {"recv", "heartbeat", "main"}

\* nobody holds the mutex
NoProducer == "nobody"

RECURSIVE SumLen(_)
SumLen(chunks) ==
  IF chunks = <<>> THEN 0 ELSE Head(chunks).len + SumLen(Tail(chunks))

NoCall == [pc |-> "idle", call |-> 0]

\* writer.New: the file is opened for appending, whatever it holds
WriterInit ==
  /\ disk \in {<<>>, <<[call |-> 0, len |-> 17]>>}
  /\ handleOpen = TRUE
  /\ reopenOnFlush \in BOOLEAN
  /\ mmu = NoProducer /\ fmu = NoProducer
  /\ bytesWritten = 0 /\ lastFlush = 0 /\ synced = SumLen(disk)
  /\ wr = [p \in Producers |-> NoCall]
  /\ calls = <<>> /\ returned = {}

\* in the specifications that are not about the writer it stays as writer.New
\* with the default options leaves it, on a new file
WriterIdle == WriterInit /\ disk = <<>> /\ reopenOnFlush

\* processor.New: the zero PostProcessor
PpInit ==
  /\ hasContent = FALSE /\ lastWord = <<>> /\ lastWordTime = NoTime
  /\ currentLine = <<>>

\* the recv loop before its first message
RecvInit ==
  /\ rv = [pc |-> "recv", kind |-> "none", output |-> <<>>, saw |-> FALSE]
  /\ received = 0 /\ transcript = <<>> /\ said = <<>>
  /\ gap = FALSE /\ turns = FALSE

\* the sidecars are running, nothing is cancelled
SideInit ==
  /\ heartbeatDone = FALSE /\ periodicStopped = FALSE /\ pluginCancelled = FALSE
  /\ meetingCancelled = FALSE /\ finalFlush = FALSE

\* the heartbeat goroutine is not started
HbOff ==
  /\ hbPc = "off" /\ hbTickCh = 0 /\ hbNow = 0 /\ hbStart = NoTime /\ hbStopAt = NoTime

HbIdle == HbOff /\ heartbeatInterval = 0

Platforms == {"zoom", "meet"}

DetOff ==
  /\ detPc = "off"
  /\ state = [p \in Platforms |-> FALSE]
  /\ lastLevel = [p \in Platforms |-> FALSE]
  /\ cbLog = [p \in Platforms |-> <<>>]

DetIdle == DetOff /\ zoomDetection = FALSE /\ meetDetection = FALSE

Plugins == {"a", "b"}

PlOff ==
  /\ exPc = "idle" /\ plNow = 0
  /\ plPc = [p \in Plugins |-> "idle"]
  /\ proc = [p \in Plugins |-> "none"]
  /\ pipeHeld = [p \in Plugins |-> FALSE]
  /\ stdoutLines = [p \in Plugins |-> <<>>]
  /\ plIdx = [p \in Plugins |-> 1]
  /\ plLog = [p \in Plugins |-> <<>>]
  /\ plStart = [p \in Plugins |-> NoTime]
  /\ plEnd = [p \in Plugins |-> NoTime]

\* no plugin is configured for the trigger
PlIdle ==
  /\ PlOff
  /\ plTrigger = [p \in Plugins |-> "periodic"]
  /\ plTimeout = [p \in Plugins |-> 0]

PerOff ==
  /\ perPc = [p \in Plugins |-> "off"]
  /\ perDone = [p \in Plugins |-> FALSE]
  /\ perTick = [p \in Plugins |-> 0]
  /\ perExecs = [p \in Plugins |-> 0]
  /\ ticks = 0

\* no periodic plugin has an interval
PerIdle == PerOff /\ perInterval = [p \in Plugins |-> 0]

\* the query tool has no input
NoArgs == [n |-> 0, unit |-> 0, asOfUsed |-> FALSE, keepMeta |-> FALSE,
           date |-> <<1, 1, 1>>]

QueryIdle ==
  /\ corpus = <<>> /\ args = NoArgs
  /\ allLines = <<>> /\ stdout = <<>> /\ runPc = "off"

FindIdle == all = <<>> /\ intervals = <<>> /\ lastPc = "input"

LastIdle == FindIdle /\ QueryIdle /\ deadAirGen = 0

LateInit == DetIdle /\ PlIdle /\ PerIdle /\ LastIdle

ExtInit == SideInit /\ HbIdle /\ overflowed = 0 /\ LateInit

CompInit == WdInit /\ WriterIdle /\ PpInit /\ RecvInit /\ ExtInit

\* audioActiveThresholdLocked: max(audioBaseline * 1.8, audioMinActiveRMS)
\* once there is a baseline
AudioActiveThreshold ==
  IF audioBaselineCount > 0 /\ (audioBaseline * 18) \div 10 >= audioMinActiveRMS
    THEN (audioBaseline * 18) \div 10
    ELSE audioMinActiveRMS

\* isAudioActiveLocked
IsAudioActive(level) ==
  IF audioBaselineCount = 0 THEN FALSE ELSE level >= AudioActiveThreshold

\* updateAudioBaselineLocked: the new <<audioBaseline, audioBaselineCount>>
UpdatedBaseline ==
  LET level == IF lastAudioLevel < audioBaselineMinValue
                 THEN audioBaselineMinValue ELSE lastAudioLevel
  IN  IF lastAudioLevel <= 0 THEN <<audioBaseline, audioBaselineCount>>
      ELSE IF audioBaselineCount = 0 THEN <<level, 1>>
      ELSE <<(8 * audioBaseline + 2 * level) \div 10, audioBaselineCount + 1>>

\* RecordAudioLevel(level), called by the send loop for every frame it takes.
\* Only audioActiveStreak >= audioActiveMinStreak is ever read: the streak
\* stops counting there.
RecordAudioLevel(level) ==
  /\ Alive /\ gen >= 1 /\ ~workerDone
  /\ lastAudioLevel' = level
  /\ IF IsAudioActive(level)
       THEN /\ audioActiveStreak' =
                 (IF audioActiveStreak < audioActiveMinStreak
                    THEN audioActiveStreak + 1 ELSE audioActiveStreak)
            /\ lastAudioActiveAt' =
                 (IF audioActiveStreak' >= audioActiveMinStreak
                    THEN now ELSE lastAudioActiveAt)
       ELSE /\ audioActiveStreak' = 0
            /\ UNCHANGED lastAudioActiveAt
  /\ UNCHANGED <<sessVars, timeVars, lastConnectAt, lastStepAt, lastWordAt,
                 audioBaseline, audioBaselineCount>>

\* RecordStepMessage, called by the recv loop for a Step message
RecordStepMessage ==
  /\ Alive /\ gen >= 1 /\ ~workerDone
  /\ lastStepAt' = now
  /\ UNCHANGED <<sessVars, timeVars, lastConnectAt, lastAudioActiveAt, lastWordAt,
                 levelVars>>

\* RecordWordMessage(word, outputProduced), called by the recv loop for a Word
\* message
RecordWordMessage(outputProduced) ==
  /\ Alive /\ gen >= 1 /\ ~workerDone
  /\ audioBaselineCount < MaxWords
  /\ IF outputProduced
       THEN /\ lastWordAt' = now
            /\ audioBaseline' = UpdatedBaseline[1]
            /\ audioBaselineCount' = UpdatedBaseline[2]
       ELSE UNCHANGED <<lastWordAt, audioBaseline, audioBaselineCount>>
  /\ UNCHANGED <<sessVars, timeVars, lastConnectAt, lastStepAt, lastAudioActiveAt,
                 lastAudioLevel, audioActiveStreak>>

\* IsDeadAir(threshold), one early return after the other
IsDeadAir(th) ==
  IF th <= 0 THEN FALSE
  ELSE IF lastStepAt = NoTime \/ now - lastStepAt > StepWindow THEN FALSE
  ELSE IF lastAudioActiveAt = NoTime \/ now - lastAudioActiveAt > th THEN FALSE
  ELSE IF lastWordAt # NoTime /\ now - lastWordAt <= th THEN FALSE
  ELSE IF lastWordAt = NoTime /\ (lastConnectAt = NoTime \/ now - lastConnectAt <= th)
    THEN FALSE
  ELSE TRUE

\* ResetDeadAirTracking
ResetDeadAirTracking ==
  /\ lastAudioActiveAt' = NoTime
  /\ lastAudioLevel' = 0
  /\ lastStepAt' = NoTime
  /\ lastWordAt' = NoTime
  /\ UNCHANGED <<audioActiveStreak, audioBaseline, audioBaselineCount>>

\* one second passes
Tick ==
  /\ Alive /\ now < MaxTime
  /\ now' = now + 1
  /\ UNCHANGED <<sessVars, threshold, trkVars>>

(***************************************************************************)
(* Supervisor: runTranscription.                                           *)
(***************************************************************************)
Run ==
  /\ Alive /\ pc = "Idle"
  /\ pc' = "Connecting"
  /\ UNCHANGED <<exitCause, reason, gen, attempt, delay, clientVars, chanVars, flagVars,
                 audioVars, workerVars, obsVars, panic>>
  /\ UNCHANGED diagVars

\* client.Connect succeeds
ConnectOK ==
  /\ Alive /\ pc = "Connecting"
  /\ dials' = dials + 1
  /\ conn' = dials'
  /\ open' = open \cup {dials'}
  /\ closed' = FALSE
  /\ pc' = "Starting"
  /\ UNCHANGED <<exitCause, reason, gen, attempt, delay, mu, broken, chanVars, flagVars,
                 audioVars, workerVars, obsVars, panic>>
  /\ lastConnectAt' = now
  /\ UNCHANGED <<timeVars, lastStepAt, lastAudioActiveAt, lastWordAt, levelVars,
                 restVars>>

\* client.Connect fails: return the error (the deferred cancelReconnect runs)
ConnectFail ==
  /\ Alive /\ pc = "Connecting"
  /\ pc' = "Exited"
  /\ exitCause' = "connect"
  /\ ctxCancelled' = TRUE
  /\ UNCHANGED <<reason, gen, attempt, delay, clientVars, stopVars, doneClosed, workerDone,
                 workerErr, deadAirCh, flagVars, audioVars, workerVars, obsVars,
                 panic>>
  /\ pluginCancelled' = TRUE
  /\ UNCHANGED <<timeVars, trkVars, scriptVars, wdVars, writerVars, ppVars, recvVars,
                 hbVars, overflowed, lateVars,
                 heartbeatDone, periodicStopped, meetingCancelled, finalFlush>>

\* capture.Start succeeds; the helper goroutines and the first workers start
StartOK ==
  /\ Alive /\ pc = "Starting"
  /\ capturing' = TRUE
  /\ gen' = 1
  /\ sw' = [sw EXCEPT ![1].pc = "sel"]
  /\ rw' = [rw EXCEPT ![1].pc = "sel"]
  /\ pc' = "Main"
  /\ UNCHANGED <<exitCause, reason, attempt, delay, clientVars, chanVars, flagVars, queue,
                 nextFrame, obsVars, panic>>
  /\ UNCHANGED diagVars

\* capture.Start fails: return the error; the deferred wsClient.Close runs
StartFail ==
  /\ Alive /\ pc = "Starting"
  /\ closed' = TRUE
  /\ open' = CloseConn(open, conn)
  /\ broken' = broken \ {conn}
  /\ pc' = "Exited"
  /\ exitCause' = "capture"
  /\ ctxCancelled' = TRUE
  /\ UNCHANGED <<reason, gen, attempt, delay, conn, mu, dials, stopVars, doneClosed,
                 workerDone, workerErr, deadAirCh, flagVars, audioVars, workerVars,
                 obsVars, panic>>
  /\ pluginCancelled' = TRUE /\ meetingCancelled' = TRUE
  /\ UNCHANGED <<timeVars, trkVars, scriptVars, wdVars, writerVars, ppVars, recvVars,
                 hbVars, overflowed, lateVars,
                 heartbeatDone, periodicStopped, finalFlush>>

\* main loop: case <-stopChan
MainStop ==
  /\ Alive /\ pc = "Main" /\ stopClosed
  /\ pc' = "Sd1"
  /\ exitCause' = "stop"
  /\ UNCHANGED <<reason, gen, attempt, delay, clientVars, chanVars, flagVars, audioVars,
                 workerVars, obsVars, panic>>
  /\ UNCHANGED diagVars

\* main loop: case <-deadAirCh: reconnect(...)
MainDeadAir ==
  /\ Alive /\ pc = "Main" /\ deadAirCh > 0
  /\ gen <= MaxReconnects
  /\ deadAirCh' = deadAirCh - 1
  /\ reason' = "deadair"
  /\ pc' = "R1"
  /\ UNCHANGED <<exitCause, gen, attempt, delay, clientVars, stopVars, ctxCancelled,
                 doneClosed, workerDone, workerErr, flagVars, audioVars, workerVars,
                 obsVars, panic>>
  /\ UNCHANGED diagVars

\* a main loop that treats a worker error as fatal
MainWorkerErrFatal ==
  /\ Alive /\ pc = "Main" /\ workerErr > 0
  /\ workerErr' = workerErr - 1
  /\ reason' = "error"
  /\ pc' = "Sd1"
  /\ UNCHANGED <<exitCause, gen, attempt, delay, clientVars, stopVars, ctxCancelled,
                 doneClosed, workerDone, deadAirCh, flagVars, audioVars, workerVars,
                 obsVars, panic>>
  /\ UNCHANGED diagVars

\* main loop: case err := <-workerErr: reconnect(...)
MainWorkerErr ==
  /\ Alive /\ pc = "Main" /\ workerErr > 0
  /\ gen <= MaxReconnects
  /\ workerErr' = workerErr - 1
  /\ reason' = "error"
  /\ pc' = "R1"
  /\ UNCHANGED <<exitCause, gen, attempt, delay, clientVars, stopVars, ctxCancelled,
                 doneClosed, workerDone, deadAirCh, flagVars, audioVars, workerVars,
                 obsVars, panic>>
  /\ UNCHANGED diagVars

\* reconnect: reconnecting = true
ReconnectMark ==
  /\ Alive /\ pc = "R1"
  /\ reconnecting' = TRUE
  /\ pc' = "R2"
  /\ UNCHANGED <<exitCause, reason, gen, attempt, delay, clientVars, chanVars, paused,
                 audioVars, workerVars, obsVars, panic>>
  /\ UNCHANGED diagVars

\* reconnect: close(workerDone)
ReconnectStopWorkers ==
  /\ Alive /\ pc = "R2"
  /\ workerDone' = TRUE
  /\ pc' = "RcClose"
  /\ UNCHANGED <<exitCause, reason, gen, attempt, delay, clientVars, stopVars, ctxCancelled,
                 doneClosed, workerErr, deadAirCh, flagVars, audioVars, workerVars,
                 obsVars, panic>>
  /\ UNCHANGED diagVars

\* Client.Reconnect: under c.mu, close and forget the connection
RcClose ==
  /\ Alive /\ pc = "RcClose" /\ MuFree
  /\ open' = (IF conn # NilConn THEN CloseConn(open, conn) ELSE open)
  /\ broken' = broken \ {conn}
  /\ conn' = NilConn
  /\ closed' = FALSE
  /\ delay' = InitialDelay
  /\ attempt' = 0
  /\ pc' = "RcLoop"
  /\ UNCHANGED <<exitCause, reason, gen, mu, dials, chanVars, flagVars, audioVars, workerVars,
                 obsVars, panic>>
  /\ UNCHANGED diagVars

\* Client.Reconnect: top of the loop (attempt++, onAttempt); a cancelled
\* context ends the loop
RcLoop ==
  /\ Alive /\ pc = "RcLoop"
  /\ IF ctxCancelled
       THEN pc' = "RcFail" /\ UNCHANGED attempt
       ELSE pc' = "RcSleep" /\ attempt' = attempt + 1
  /\ UNCHANGED <<exitCause, reason, gen, delay, clientVars, chanVars, flagVars, audioVars,
                 workerVars, obsVars, panic>>
  /\ UNCHANGED diagVars

\* Client.Reconnect: the backoff sleep of `delay` seconds ends
RcSleep ==
  /\ Alive /\ pc = "RcSleep"
  /\ pc' = (IF ctxCancelled THEN "RcFail" ELSE "RcDial")
  /\ UNCHANGED <<exitCause, reason, gen, attempt, delay, clientVars, chanVars, flagVars,
                 audioVars, workerVars, obsVars, panic>>
  /\ UNCHANGED diagVars

\* Client.Reconnect: the dial succeeds
RcDialOK ==
  /\ Alive /\ pc = "RcDial" /\ ~ctxCancelled /\ MuFree
  /\ dials' = dials + 1
  /\ conn' = dials'
  /\ open' = open \cup {dials'}
  /\ closed' = FALSE
  /\ pc' = "RcOk"
  /\ UNCHANGED <<exitCause, reason, gen, attempt, delay, mu, broken, chanVars, flagVars,
                 audioVars, workerVars, obsVars, panic>>
  /\ UNCHANGED diagVars

\* Client.Reconnect: the dial fails; exponential backoff
RcDialFail ==
  /\ Alive /\ pc = "RcDial" /\ ~ctxCancelled
  /\ attempt < MaxAttempts
  /\ delay' = BackoffNext(delay)
  /\ pc' = "RcLoop"
  /\ UNCHANGED <<exitCause, reason, gen, attempt, clientVars, chanVars, flagVars, audioVars,
                 workerVars, obsVars, panic>>
  /\ UNCHANGED diagVars

\* Client.Reconnect: the dial is abandoned because the context is cancelled
RcDialCancelled ==
  /\ Alive /\ pc = "RcDial" /\ ctxCancelled
  /\ pc' = "RcFail"
  /\ UNCHANGED <<exitCause, reason, gen, attempt, delay, clientVars, chanVars, flagVars,
                 audioVars, workerVars, obsVars, panic>>
  /\ UNCHANGED diagVars

\* reconnect: success; reconnecting = false; workerDone, workerErr = startWorkers()
ReconnectOK ==
  /\ Alive /\ pc = "RcOk"
  /\ gen <= MaxReconnects
  /\ reconnecting' = FALSE
  /\ gen' = gen + 1
  /\ sw' = [sw EXCEPT ![gen + 1].pc = "sel"]
  /\ rw' = [rw EXCEPT ![gen + 1].pc = "sel"]
  /\ workerDone' = FALSE
  /\ workerErr' = 0
  /\ attempt' = 0
  /\ delay' = 0
  /\ pc' = "Main"
  /\ reason' = "none"
  /\ UNCHANGED <<exitCause, clientVars, stopVars, ctxCancelled, doneClosed,
                 deadAirCh, paused, audioVars, obsVars, panic>>
  /\ lastConnectAt' = now
  /\ ResetDeadAirTracking
  /\ UNCHANGED <<timeVars, restVars>>

\* reconnect: reconnectErr != nil; return false; goto shutdown
ReconnectFail ==
  /\ Alive /\ pc = "RcFail"
  /\ pc' = "Sd1"
  /\ exitCause' = "reconnect"
  /\ attempt' = 0
  /\ delay' = 0
  /\ UNCHANGED <<reason, gen, clientVars, chanVars, flagVars, audioVars, workerVars,
                 obsVars, panic>>
  /\ UNCHANGED diagVars

\* shutdown: close(done), close(heartbeatDone), StopPeriodic, pluginCancel,
\* close(workerDone) unless already closed
ShutdownSignal ==
  /\ Alive /\ pc = "Sd1"
  /\ doneClosed' = TRUE
  /\ workerDone' = TRUE
  /\ pc' = "SdStop"
  /\ UNCHANGED <<exitCause, reason, gen, attempt, delay, clientVars, stopVars, ctxCancelled,
                 workerErr, deadAirCh, flagVars, audioVars, workerVars, obsVars,
                 panic>>
  /\ heartbeatDone' = TRUE /\ periodicStopped' = TRUE /\ pluginCancelled' = TRUE
  /\ UNCHANGED <<timeVars, trkVars, scriptVars, wdVars, writerVars, ppVars, recvVars,
                 hbVars, overflowed, lateVars,
                 meetingCancelled, finalFlush>>

\* shutdown: capture.Stop()
ShutdownCapture ==
  /\ Alive /\ pc = "SdStop"
  /\ capturing' = FALSE
  /\ pc' = "SdClose"
  /\ UNCHANGED <<exitCause, reason, gen, attempt, delay, clientVars, chanVars, flagVars, queue,
                 nextFrame, workerVars, obsVars, panic>>
  /\ UNCHANGED diagVars

\* shutdown: wsClient.Close(): under c.mu; no-op when closed; else closed = true,
\* write the close message and close c.conn (a nil c.conn panics)
ShutdownClient ==
  /\ Alive /\ pc = "SdClose" /\ MuFree
  /\ IF closed
       THEN pc' = "SdFlush" /\ UNCHANGED <<closed, open, broken, panic>>
       ELSE /\ closed' = TRUE
            /\ IF conn = NilConn
                 THEN panic' = "Close" /\ UNCHANGED <<pc, open, broken>>
                 ELSE /\ open' = CloseConn(open, conn)
                      /\ broken' = broken \ {conn}
                      /\ pc' = "SdFlush"
                      /\ UNCHANGED panic
  /\ UNCHANGED <<exitCause, reason, gen, attempt, delay, conn, mu, dials, chanVars, flagVars,
                 audioVars, workerVars, obsVars>>
  /\ UNCHANGED diagVars

\* shutdown: final newline, Flush, return nil (the deferred
\* meetingDetectorCancel and cancelReconnect run)
ShutdownFlush ==
  /\ Alive /\ pc = "SdFlush"
  /\ pc' = "Exited"
  /\ ctxCancelled' = TRUE
  /\ UNCHANGED <<exitCause, reason, gen, attempt, delay, clientVars, stopVars, doneClosed,
                 workerDone, workerErr, deadAirCh, flagVars, audioVars, workerVars,
                 obsVars, panic>>
  /\ finalFlush' = TRUE /\ meetingCancelled' = TRUE
  /\ UNCHANGED <<timeVars, trkVars, scriptVars, wdVars, writerVars, ppVars, recvVars,
                 hbVars, overflowed, lateVars,
                 heartbeatDone, periodicStopped, pluginCancelled>>

\* every step of the supervisor but a dead-air reconnect and a failed dial
SupervisorStep ==
  \/ Run \/ ConnectOK \/ ConnectFail \/ StartOK \/ StartFail
  \/ MainStop \/ MainWorkerErr
  \/ ReconnectMark \/ ReconnectStopWorkers
  \/ RcClose \/ RcLoop \/ RcSleep \/ RcDialOK \/ RcDialCancelled
  \/ ReconnectOK \/ ReconnectFail
  \/ ShutdownSignal \/ ShutdownCapture \/ ShutdownClient \/ ShutdownFlush

(***************************************************************************)
(* Send worker of generation g (startWorkers, first goroutine).            *)
(***************************************************************************)
\* select: case <-workerDone / case <-done: return
SendExit(g) ==
  /\ Alive /\ sw[g].pc = "sel"
  /\ WorkerDoneClosed(g) \/ doneClosed
  /\ sw' = [sw EXCEPT ![g].pc = "exit"]
  /\ UNCHANGED <<supVars, clientVars, chanVars, flagVars, audioVars, rw, obsVars,
                 panic>>
  /\ UNCHANGED diagVars

\* select: case chunk := <-capture.Chunks(); RecordAudioLevel
SendTake(g) ==
  /\ Alive /\ sw[g].pc = "sel"
  /\ queue # <<>>
  /\ sw' = [sw EXCEPT ![g].pc = "skipP", ![g].f = Head(queue),
                       ![g].c = paused \/ reconnecting]
  /\ queue' = Tail(queue)
  /\ UNCHANGED <<supVars, clientVars, chanVars, flagVars, capturing, nextFrame, rw,
                 obsVars, panic>>
  /\ UNCHANGED diagVars

\* shouldSkip: p := paused (under pauseMu)
SendSkipP(g) ==
  /\ Alive /\ sw[g].pc = "skipP"
  /\ sw' = [sw EXCEPT ![g].pc = "skipR", ![g].p = paused]
  /\ UNCHANGED <<supVars, clientVars, chanVars, flagVars, audioVars, rw, obsVars,
                 panic>>
  /\ UNCHANGED diagVars

\* shouldSkip: r := reconnecting (under reconnectMu); return p || r;
\* when true: RecordChunkDropped; continue
SendSkipR(g) ==
  /\ Alive /\ sw[g].pc = "skipR"
  /\ skipCond' = (IF sw[g].p \/ reconnecting THEN skipCond \cup {sw[g].f} ELSE skipCond)
  /\ IF ShouldSkip(sw[g].p, reconnecting)
       THEN /\ chunksDropped' = chunksDropped + 1
            /\ dropped' = dropped \cup {sw[g].f}
            /\ sw' = [sw EXCEPT ![g] = [NoSend EXCEPT !.pc = "sel"]]
       ELSE /\ sw' = [sw EXCEPT ![g].pc = "send", ![g].p = FALSE]
            /\ UNCHANGED <<chunksDropped, dropped>>
  /\ UNCHANGED <<supVars, clientVars, chanVars, flagVars, audioVars, rw, submitted,
                 wire, sendErrs, panic>>
  /\ UNCHANGED diagVars

\* Client.SendAudio: c.mu.Lock()
SendLock(g) ==
  /\ Alive /\ sw[g].pc = "send"
  /\ MuFree
  /\ mu' = g
  /\ submitted' = Append(submitted, sw[g].f)
  /\ sw' = [sw EXCEPT ![g].pc = "cs", ![g].c = FALSE,
                       ![g].ok = ~paused /\ ~reconnecting]
  /\ UNCHANGED <<supVars, conn, closed, open, broken, dials, chanVars, flagVars,
                 audioVars, rw, wire, sendErrs, chunksDropped, dropped, skipCond,
                 panic>>
  /\ UNCHANGED diagVars

\* Client.SendAudio under c.mu: closed -> ErrCloseSent; else
\* c.conn.WriteMessage (a nil c.conn panics); c.mu.Unlock(); on success
\* RecordChunkSent and the next iteration
SendWrite(g) ==
  /\ Alive /\ sw[g].pc = "cs"
  /\ mu' = NoHolder
  /\ IF closed
       THEN /\ sw' = [sw EXCEPT ![g].pc = "post", ![g].ok = FALSE]
            /\ UNCHANGED <<wire, panic>>
       ELSE IF conn = NilConn
         THEN /\ panic' = "SendAudio"
              /\ UNCHANGED <<sw, wire>>
         ELSE IF conn \in open \ broken
           THEN /\ wire' = Append(wire, sw[g].f)
                /\ sw' = [sw EXCEPT ![g] = [NoSend EXCEPT !.pc = "sel"]]
                /\ UNCHANGED panic
           ELSE /\ sw' = [sw EXCEPT ![g].pc = "post", ![g].ok = FALSE]
                /\ UNCHANGED <<wire, panic>>
  /\ UNCHANGED <<supVars, conn, closed, open, broken, dials, chanVars, flagVars,
                 audioVars, rw, submitted, sendErrs, chunksDropped, dropped,
                 skipCond>>
  /\ UNCHANGED diagVars

\* a send loop that returns on a send error without reporting it
RecordSendErrorLost(errs, f) == errs

\* diag.RecordSendError(err), for the frame f whose send failed
RecordSendError(errs, f) == errs \cup {f}

\* SendAudio returned an error: RecordSendError;
\* if !IsClosed() { workerErr <- err }; return
SendPostErr(g) ==
  /\ Alive /\ sw[g].pc = "post"
  /\ MuFree
  /\ sendErrs' = RecordSendError(sendErrs, sw[g].f)
  /\ workerErr' = PostWorkerErr(g)
  /\ sw' = [sw EXCEPT ![g] = [NoSend EXCEPT !.pc = "exit"]]
  /\ UNCHANGED <<supVars, clientVars, stopVars, ctxCancelled, doneClosed, workerDone,
                 deadAirCh, flagVars, audioVars, rw, submitted, wire,
                 chunksDropped, dropped, skipCond, panic>>
  /\ UNCHANGED diagVars

SendWorker(g) ==
  \/ SendExit(g) \/ SendTake(g) \/ SendSkipP(g) \/ SendSkipR(g)
  \/ SendLock(g) \/ SendWrite(g) \/ SendPostErr(g)

(***************************************************************************)
(* Recv worker of generation g (startWorkers, second goroutine).           *)
(***************************************************************************)
\* select: case <-workerDone / case <-done: return; default: call Receive
RecvSelect(g) ==
  /\ Alive /\ rw[g].pc = "sel"
  /\ rw' = [rw EXCEPT ![g].pc = (IF WorkerDoneClosed(g) \/ doneClosed THEN "exit" ELSE "call")]
  /\ UNCHANGED <<supVars, clientVars, chanVars, flagVars, audioVars, sw, obsVars,
                 panic>>
  /\ UNCHANGED diagVars

\* Client.Receive: c.conn.ReadMessage() reads c.conn without c.mu (nil panics)
RecvCall(g) ==
  /\ Alive /\ rw[g].pc = "call"
  /\ IF conn = NilConn
       THEN panic' = "Receive" /\ UNCHANGED rw
       ELSE rw' = [rw EXCEPT ![g].pc = "read", ![g].rc = conn] /\ UNCHANGED panic
  /\ UNCHANGED <<supVars, clientVars, chanVars, flagVars, audioVars, sw, obsVars>>
  /\ UNCHANGED diagVars

\* ReadMessage returns a message of kind m; switch msg: Word ->
\* postProc.ProcessWord; Step with IsEndOfTurn -> postProc.ProcessEndOfTurn;
\* every other message is only recorded
RecvMsg(g, m) ==
  /\ Alive /\ rw[g].pc = "read"
  /\ rw[g].rc \in open \ broken
  /\ rw' = (IF m \in {"word", "eot"}
              THEN [rw EXCEPT ![g].pc = "pp", ![g].msg = m]
              ELSE [rw EXCEPT ![g] = [NoRecv EXCEPT !.pc = "sel"]])
  /\ UNCHANGED <<supVars, clientVars, chanVars, flagVars, audioVars, sw, obsVars,
                 panic>>
  /\ UNCHANGED diagVars

\* ReadMessage fails: the connection is closed or broken
RecvFail(g) ==
  /\ Alive /\ rw[g].pc = "read"
  /\ rw[g].rc \notin open \ broken
  /\ rw' = [rw EXCEPT ![g].pc = "rerr"]
  /\ UNCHANGED <<supVars, clientVars, chanVars, flagVars, audioVars, sw, obsVars,
                 panic>>
  /\ UNCHANGED diagVars

\* RecordRecvError; if !IsClosed() { workerErr <- err }; return
RecvErr(g) ==
  /\ Alive /\ rw[g].pc = "rerr"
  /\ MuFree
  /\ workerErr' = PostWorkerErr(g)
  /\ rw' = [rw EXCEPT ![g] = [NoRecv EXCEPT !.pc = "exit"]]
  /\ UNCHANGED <<supVars, clientVars, stopVars, ctxCancelled, doneClosed, workerDone,
                 deadAirCh, flagVars, audioVars, sw, obsVars, panic>>
  /\ UNCHANGED diagVars

\* the PostProcessor method returns; the output is written; next iteration
RecvProcessed(g) ==
  /\ Alive /\ rw[g].pc = "pp"
  /\ rw' = [rw EXCEPT ![g] = [NoRecv EXCEPT !.pc = "sel"]]
  /\ UNCHANGED <<supVars, clientVars, chanVars, flagVars, audioVars, sw, obsVars,
                 panic>>
  /\ UNCHANGED diagVars

RecvWorker(g) ==
  \/ RecvSelect(g) \/ RecvCall(g) \/ (\E m \in MsgKinds : RecvMsg(g, m))
  \/ RecvFail(g) \/ RecvErr(g) \/ RecvProcessed(g)

\* the recv workers that are inside ProcessWord or ProcessEndOfTurn
inPP == {g \in Gens : rw[g].pc = "pp"}

(***************************************************************************)
(* Signals, helper goroutines, the audio device and the network.           *)
(***************************************************************************)
\* SIGINT / SIGTERM: the first goroutine of runTranscription closes stopChan;
\* observe says whether to record where the supervisor was
SigInt(observe) ==
  /\ Alive /\ pc # "Idle" /\ ~stopClosed
  /\ stopClosed' = TRUE
  /\ stopDuringReconnect' = (observe /\ pc \in {"RcSleep", "RcDial"})
  /\ UNCHANGED <<supVars, clientVars, ctxCancelled, doneClosed, workerDone, workerErr,
                 deadAirCh, flagVars, audioVars, workerVars, obsVars, panic>>
  /\ UNCHANGED diagVars

\* go func() { <-stopChan; cancelReconnect() }
CancelOnStop ==
  /\ Alive /\ stopClosed /\ ~ctxCancelled
  /\ ctxCancelled' = TRUE
  /\ UNCHANGED <<supVars, clientVars, stopVars, doneClosed, workerDone, workerErr,
                 deadAirCh, flagVars, audioVars, workerVars, obsVars, panic>>
  /\ UNCHANGED diagVars

\* SIGTSTP: paused = !paused
TogglePause ==
  /\ Helpers
  /\ paused' = ~paused
  /\ UNCHANGED <<supVars, clientVars, chanVars, reconnecting, audioVars, workerVars,
                 obsVars, panic>>
  /\ UNCHANGED diagVars

\* a send that takes every signal, whatever is in the channel
TrySendUncapped(n, cap) == n + 1

\* select { case ch <- struct{}{}: default: } on a channel holding n of cap
TrySend(n, cap) == IF n < cap THEN n + 1 ELSE n

\* dead-air watchdog, on a tick: if shouldSkip() { continue }; if IsDeadAir
\* (isDead): select { case deadAirCh <- struct{}{}: default: }
WatchdogTick(isDead) ==
  /\ Helpers
  /\ deadAirCh' = (IF ~ShouldSkip(paused, reconnecting) /\ isDead
                     THEN TrySend(deadAirCh, DeadAirCap) ELSE deadAirCh)
  /\ UNCHANGED <<supVars, clientVars, stopVars, ctxCancelled, doneClosed, workerDone,
                 workerErr, flagVars, audioVars, workerVars, obsVars, panic>>
  /\ UNCHANGED <<timeVars, trkVars>>

\* portaudio callback: select { case c.chunks <- chunk: default: (drop) }
CaptureFrame ==
  /\ Alive /\ capturing /\ nextFrame <= MaxFrames
  /\ queue' = (IF Len(queue) < ChannelBufferSize THEN Append(queue, nextFrame) ELSE queue)
  /\ nextFrame' = nextFrame + 1
  /\ UNCHANGED <<supVars, clientVars, chanVars, flagVars, capturing, workerVars,
                 obsVars, panic>>
  /\ UNCHANGED diagVars

\* the transport of an open connection fails
NetFail ==
  /\ Alive
  /\ \E c \in open \ broken : broken' = broken \cup {c}
  /\ UNCHANGED <<supVars, conn, closed, mu, open, dials, chanVars, flagVars, audioVars,
                 workerVars, obsVars, panic>>
  /\ UNCHANGED diagVars

(***************************************************************************)
(* Spec: the session seen from the supervisor and the recv workers.  The   *)
(* audio device delivers no frame, so a send worker only waits for its     *)
(* workerDone and returns.  In the session specifications no time passes   *)
(* and the watchdog may find dead air on any of its ticks.                 *)
(***************************************************************************)
Init == SessInit /\ DiagInit /\ CompInit /\ threshold = 2 /\ thresholdMs = 2 * Second

Watchdog == WatchdogTick(TRUE) /\ UNCHANGED restVars

Next ==
  \/ SupervisorStep \/ MainDeadAir \/ RcDialFail
  \/ (\E g \in Gens : RecvWorker(g))
  \/ (\E g \in Gens : SendExit(g))
  \/ SigInt(TRUE) \/ CancelOnStop \/ TogglePause \/ Watchdog \/ NetFail

Spec == Init /\ [][Next]_vars

(***************************************************************************)
(* SendSpec: the session seen from the audio device and the send workers.  *)
(* Every dial succeeds unless the context is cancelled, and the recv       *)
(* workers stay blocked in ReadMessage; reconnects are started by send     *)
(* errors and by the dead-air watchdog.                                    *)
(***************************************************************************)
SendNext ==
  \/ SupervisorStep \/ MainDeadAir
  \/ (\E g \in Gens : SendWorker(g))
  \/ SigInt(FALSE) \/ CancelOnStop \/ TogglePause \/ Watchdog \/ NetFail
  \/ CaptureFrame

SendSpec == Init /\ [][SendNext]_vars

(***************************************************************************)
(* ErrSpec: both workers of every generation, with transport failures and  *)
(* the stop signal as the only events: every reconnect is started by a     *)
(* worker error.                                                           *)
(***************************************************************************)
ErrNext ==
  \/ SupervisorStep
  \/ (\E g \in Gens : SendWorker(g))
  \/ (\E g \in Gens : RecvWorker(g))
  \/ SigInt(FALSE) \/ CancelOnStop \/ NetFail
  \/ CaptureFrame

ErrSpec == Init /\ [][ErrNext]_vars

(***************************************************************************)
(* EpisodeSpec: dead-air signals and worker errors side by side.  The      *)
(* watchdog notes with every signal it sends the generation of the workers *)
(* that were running; after the last reconnect that is counted the main    *)
(* loop still takes a signal and begins a reconnect, which is not followed *)
(* to its end.  The stop signal is the only other event.                   *)
(***************************************************************************)
\* main loop: case <-deadAirCh, once MaxReconnects reconnects have succeeded
MainDeadAirLast ==
  /\ Alive /\ pc = "Main" /\ deadAirCh > 0
  /\ gen = MaxReconnects + 1
  /\ deadAirCh' = deadAirCh - 1
  /\ reason' = "deadair"
  /\ pc' = "R1"
  /\ UNCHANGED <<exitCause, gen, attempt, delay, clientVars, stopVars, ctxCancelled,
                 doneClosed, workerDone, workerErr, flagVars, audioVars, workerVars,
                 obsVars, panic>>
  /\ UNCHANGED diagVars

\* the watchdog's tick, and the generation in which the signal was sent
EpisodeWatchdog ==
  /\ WatchdogTick(TRUE)
  /\ deadAirGen' = (IF deadAirCh' # deadAirCh THEN gen ELSE deadAirGen)
  /\ UNCHANGED <<scriptVars, wdVars, writerVars, ppVars, recvVars, sideVars, hbVars,
                 overflowed, detVars, plVars, perVars, all, intervals, lastPc, queryVars>>

EpisodeNext ==
  \/ SupervisorStep \/ MainDeadAir \/ MainDeadAirLast
  \/ (\E g \in Gens : RecvWorker(g))
  \/ (\E g \in Gens : SendExit(g))
  \/ SigInt(FALSE) \/ CancelOnStop \/ EpisodeWatchdog \/ NetFail

EpisodeSpec == Init /\ [][EpisodeNext]_vars

(***************************************************************************)
(* TrackerSpec: the tracker and the watchdog on the clock.  The workers'   *)
(* calls of the tracker come at any time while the workers of the current  *)
(* generation have not been told to stop; every dial succeeds.             *)
(***************************************************************************)
TrackerInit ==
  /\ SessInit /\ DiagInit /\ CompInit
  /\ threshold \in {1, 2} /\ thresholdMs = threshold * Second

TrkAudio == \E l \in Levels : RecordAudioLevel(l) /\ UNCHANGED restVars
TrkStep == RecordStepMessage /\ UNCHANGED restVars
TrkWord == (\E o \in BOOLEAN : RecordWordMessage(o)) /\ UNCHANGED restVars
TrkWatchdog == WatchdogTick(IsDeadAir(threshold)) /\ UNCHANGED restVars
TrkTick == Tick /\ UNCHANGED restVars

TrackerNext ==
  \/ Run \/ ConnectOK \/ StartOK
  \/ MainDeadAir \/ ReconnectMark \/ ReconnectStopWorkers
  \/ RcClose \/ RcLoop \/ RcSleep \/ RcDialOK \/ ReconnectOK
  \/ TrkAudio \/ TrkStep \/ TrkWord \/ TrkWatchdog \/ TrkTick

TrackerSpec == TrackerInit /\ [][TrackerNext]_vars

(***************************************************************************)
(* S4Spec: scenario S4.  The threshold is 2 s; in every second the send    *)
(* loop records audioActiveMinStreak frames of level 0.2, the recv loop    *)
(* two Step messages (one every 500 ms) and the watchdog ticks once (its   *)
(* interval is 1 s); no Word message ever arrives.                         *)
(***************************************************************************)
S4Frame ==
  /\ framesInSecond < audioActiveMinStreak
  /\ RecordAudioLevel(200000)
  /\ framesInSecond' = framesInSecond + 1
  /\ UNCHANGED <<stepsInSecond, watchdogTicked, compVars>>

S4Step ==
  /\ stepsInSecond < 2
  /\ RecordStepMessage
  /\ stepsInSecond' = stepsInSecond + 1
  /\ UNCHANGED <<framesInSecond, watchdogTicked, compVars>>

S4Watchdog ==
  /\ ~watchdogTicked
  /\ WatchdogTick(IsDeadAir(threshold))
  /\ watchdogTicked' = TRUE
  /\ UNCHANGED <<framesInSecond, stepsInSecond, compVars>>

S4Tick ==
  /\ framesInSecond = audioActiveMinStreak /\ stepsInSecond = 2 /\ watchdogTicked
  /\ Tick
  /\ framesInSecond' = 0 /\ stepsInSecond' = 0 /\ watchdogTicked' = FALSE
  /\ UNCHANGED compVars

S4Next ==
  \/ Run \/ ConnectOK \/ StartOK
  \/ S4Frame \/ S4Step \/ S4Watchdog \/ S4Tick

S4Spec == Init /\ [][S4Next]_vars

(***************************************************************************)
(* The dead-air watchdog step by step: the ticker fires, shouldSkip()      *)
(* reads paused under pauseMu and then reconnecting under reconnectMu,     *)
(* IsDeadAir is asked, the signal is sent without blocking.  The other     *)
(* specifications take a tick as one step (WatchdogTick): a signal sent    *)
(* during a reconnect is consumed by the main loop after it, as one sent   *)
(* right after the reconnect is.                                           *)
(***************************************************************************)
\* an interval of min(threshold / 2, 1 s), not below MinInterval
WatchdogIntervalHalf(th) ==
  IF th \div 2 >= Second THEN Second
  ELSE IF th \div 2 < MinInterval THEN MinInterval ELSE th \div 2

\* interval := time.Second; if threshold < time.Second { interval = threshold / 2;
\* if interval < 100 ms { interval = 100 ms } }
WatchdogInterval(th) ==
  IF th < Second
    THEN (IF th \div 2 < MinInterval THEN MinInterval ELSE th \div 2)
    ELSE Second

wdFrame == <<timeVars, trkVars, scriptVars, thresholdMs, writerVars, ppVars, recvVars,
             extVars>>
wdOthers == <<supVars, clientVars, stopVars, ctxCancelled, doneClosed, workerDone,
              workerErr, flagVars, audioVars, workerVars, obsVars, panic>>

\* if cfg.DeadAirReset.Duration() > 0: the interval is computed and the
\* goroutine started
StartWatchdog ==
  /\ Alive /\ interval = 0 /\ thresholdMs > 0
  /\ interval' = WatchdogInterval(thresholdMs)
  /\ UNCHANGED <<sessVars, wdFrame, wd>>

\* case <-ticker.C
WdTick ==
  /\ Helpers /\ interval # 0 /\ wd.pc = "wait"
  /\ wd' = [pc |-> "readP", p |-> FALSE]
  /\ UNCHANGED <<sessVars, wdFrame, interval>>

\* shouldSkip: p := paused
WdReadPaused ==
  /\ wd.pc = "readP"
  /\ wd' = [pc |-> "readR", p |-> paused]
  /\ UNCHANGED <<sessVars, wdFrame, interval>>

\* shouldSkip: r := reconnecting; return p || r; if shouldSkip() { continue }
WdReadReconnecting ==
  /\ wd.pc = "readR"
  /\ wd' = [pc |-> (IF ShouldSkip(wd.p, reconnecting) THEN "wait" ELSE "dead"),
            p |-> FALSE]
  /\ UNCHANGED <<sessVars, wdFrame, interval>>

\* if diag.IsDeadAir(threshold)
WdIsDeadAir(isDead) ==
  /\ wd.pc = "dead"
  /\ wd' = [wd EXCEPT !.pc = IF isDead THEN "send" ELSE "wait"]
  /\ UNCHANGED <<sessVars, wdFrame, interval>>

\* select { case deadAirCh <- struct{}{}: default: }
WdSend ==
  /\ wd.pc = "send"
  /\ deadAirCh' = TrySend(deadAirCh, DeadAirCap)
  /\ wd' = [wd EXCEPT !.pc = "wait"]
  /\ UNCHANGED <<wdOthers, wdFrame, interval>>

(***************************************************************************)
(* IntervalSpec: the watchdog's interval for every threshold up to         *)
(* MaxThresholdMs (0: the watchdog is off).                                *)
(***************************************************************************)
IntervalInit ==
  /\ SessInit /\ DiagInit /\ CompInit
  /\ threshold = 2 /\ thresholdMs \in 0..MaxThresholdMs

IntervalNext == StartWatchdog

IntervalSpec == IntervalInit /\ [][IntervalNext]_vars

(***************************************************************************)
(* WatchdogSpec: the watchdog, the pause signal and the reconnects its     *)
(* signals start.  What IsDeadAir answers is left open.                    *)
(***************************************************************************)
WatchdogNext ==
  \/ Run \/ ConnectOK \/ StartOK \/ StartWatchdog
  \/ MainDeadAir \/ ReconnectMark \/ ReconnectStopWorkers
  \/ RcClose \/ RcLoop \/ RcSleep \/ RcDialOK \/ ReconnectOK
  \/ TogglePause
  \/ WdTick \/ WdReadPaused \/ WdReadReconnecting
  \/ (\E isDead \in BOOLEAN : WdIsDeadAir(isDead)) \/ WdSend

WatchdogSpec == Init /\ [][WatchdogNext]_vars

(***************************************************************************)
(* The writer.  A call of MultiWriter.Write takes m.mu, writes to stdout,  *)
(* and calls FileWriter.Write, which takes w.mu, writes the payload        *)
(* (os.File.Write loops over write(2) until every byte is written: one     *)
(* chunk or two), and flushes if shouldFlush().  WriteMetadata, whose code *)
(* is not in the repository's sources, is a Write.                         *)
(***************************************************************************)
\* a mutex that lets everyone in
UnlockedAlways(holder) == TRUE

\* mu.Lock() returns when nobody holds mu
Unlocked(holder) == holder = NoProducer

\* os.OpenFile(path, O_CREATE|O_TRUNC|O_WRONLY): the file is emptied
OpenFileTrunc(content) == <<>>

\* os.OpenFile(path, O_CREATE|O_APPEND|O_WRONLY): the content stays
OpenFile(content) == content

\* a shouldFlush that looks at the size only
ShouldFlushSizeOnly == bytesWritten >= FlushSize

\* shouldFlush
ShouldFlush ==
  IF bytesWritten >= FlushSize THEN TRUE
  ELSE IF now - lastFlush >= FlushInterval THEN TRUE
  ELSE FALSE

wrFrame == <<sessVars, timeVars, trkVars, scriptVars, wdVars, reopenOnFlush, ppVars,
             recvVars, extVars>>

\* the call returns: defer w.mu.Unlock(), defer m.mu.Unlock()
Return(p) ==
  /\ wr' = [wr EXCEPT ![p] = NoCall]
  /\ returned' = returned \cup {wr[p].call}
  /\ mmu' = NoProducer /\ fmu' = NoProducer

\* producer p submits a call with a payload of n bytes
WrSubmit(p, n) ==
  /\ wr[p].pc = "idle" /\ Len(calls) < MaxCalls
  /\ calls' = Append(calls, [by |-> p, size |-> n, before |-> returned])
  /\ wr' = [wr EXCEPT ![p] = [pc |-> "lockM", call |-> Len(calls) + 1]]
  /\ UNCHANGED <<wrFrame, disk, handleOpen, mmu, fmu, bytesWritten, lastFlush, synced,
                 returned>>

\* the recv loop calls multiWriter.Write(output)
WriteCall(n) == WrSubmit("recv", n)

\* the heartbeat calls multiWriter.WriteMetadata(line): serialized under the
\* same mutex as Write
WriteMetadataCall(n) == WrSubmit("heartbeat", n)

\* the main goroutine calls multiWriter.Flush()
WrSubmitFlush == WrSubmit("main", 0)

\* m.mu.Lock(); the write to stdout
WrLockM(p) ==
  /\ wr[p].pc = "lockM" /\ Unlocked(mmu)
  /\ mmu' = p
  /\ wr' = [wr EXCEPT ![p].pc = "lockF"]
  /\ UNCHANGED <<wrFrame, disk, handleOpen, fmu, bytesWritten, lastFlush, synced,
                 calls, returned>>

\* w.mu.Lock(), in FileWriter.Write or FileWriter.Flush
WrLockF(p) ==
  /\ wr[p].pc = "lockF" /\ Unlocked(fmu)
  /\ fmu' = p
  /\ wr' = [wr EXCEPT ![p].pc = IF p = "main" THEN "sync" ELSE "write"]
  /\ UNCHANGED <<wrFrame, disk, handleOpen, mmu, bytesWritten, lastFlush, synced,
                 calls, returned>>

\* w.file.WriteString(data), every byte in one write(2); w.bytesWritten += n
WrWrite(p) ==
  /\ wr[p].pc = "write" /\ handleOpen
  /\ disk' = Append(disk, [call |-> wr[p].call, len |-> calls[wr[p].call].size])
  /\ bytesWritten' = bytesWritten + calls[wr[p].call].size
  /\ wr' = [wr EXCEPT ![p].pc = "check"]
  /\ UNCHANGED <<wrFrame, handleOpen, mmu, fmu, lastFlush, synced, calls, returned>>

\* w.file.WriteString(data): a first write(2) takes half of the bytes
WrWriteHalf(p) ==
  /\ wr[p].pc = "write" /\ handleOpen
  /\ disk' = Append(disk, [call |-> wr[p].call, len |-> calls[wr[p].call].size \div 2])
  /\ wr' = [wr EXCEPT ![p].pc = "write2"]
  /\ UNCHANGED <<wrFrame, handleOpen, mmu, fmu, bytesWritten, lastFlush, synced,
                 calls, returned>>

\* w.file.WriteString(data): the second write(2) takes the rest; w.bytesWritten += n
WrWriteRest(p) ==
  /\ wr[p].pc = "write2" /\ handleOpen
  /\ disk' = Append(disk, [call |-> wr[p].call,
                           len |-> calls[wr[p].call].size - calls[wr[p].call].size \div 2])
  /\ bytesWritten' = bytesWritten + calls[wr[p].call].size
  /\ wr' = [wr EXCEPT ![p].pc = "check"]
  /\ UNCHANGED <<wrFrame, handleOpen, mmu, fmu, lastFlush, synced, calls, returned>>

\* if w.shouldFlush() { return w.flushLocked() }; return nil
WrCheck(p) ==
  /\ wr[p].pc = "check"
  /\ IF ShouldFlush
       THEN /\ wr' = [wr EXCEPT ![p].pc = "sync"]
            /\ UNCHANGED <<mmu, fmu, returned>>
       ELSE Return(p)
  /\ UNCHANGED <<wrFrame, disk, handleOpen, bytesWritten, lastFlush, synced, calls>>

\* flushLocked: w.file.Sync()
WrSync(p) ==
  /\ wr[p].pc = "sync" /\ handleOpen
  /\ synced' = SumLen(disk)
  /\ wr' = [wr EXCEPT ![p].pc = IF reopenOnFlush THEN "close" ELSE "flushed"]
  /\ UNCHANGED <<wrFrame, disk, handleOpen, mmu, fmu, bytesWritten, lastFlush,
                 calls, returned>>

\* flushLocked: w.file.Close()
WrClose(p) ==
  /\ wr[p].pc = "close"
  /\ handleOpen' = FALSE
  /\ wr' = [wr EXCEPT ![p].pc = "reopen"]
  /\ UNCHANGED <<wrFrame, disk, mmu, fmu, bytesWritten, lastFlush, synced,
                 calls, returned>>

\* flushLocked: w.file = os.OpenFile(w.path, O_CREATE|O_APPEND|O_WRONLY, 0644)
WrReopen(p) ==
  /\ wr[p].pc = "reopen"
  /\ handleOpen' = TRUE
  /\ disk' = OpenFile(disk)
  /\ wr' = [wr EXCEPT ![p].pc = "flushed"]
  /\ UNCHANGED <<wrFrame, mmu, fmu, bytesWritten, lastFlush, synced, calls, returned>>

\* flushLocked: w.bytesWritten = 0; w.lastFlush = time.Now(); return nil
WrFlushed(p) ==
  /\ wr[p].pc = "flushed"
  /\ bytesWritten' = 0
  /\ lastFlush' = now
  /\ Return(p)
  /\ UNCHANGED <<wrFrame, disk, handleOpen, synced, calls>>

\* a second passes
WrTick ==
  /\ now < MaxWriterTime
  /\ now' = now + 1
  /\ UNCHANGED <<sessVars, threshold, trkVars, scriptVars, wdVars, writerVars, ppVars,
                 recvVars, extVars>>

(***************************************************************************)
(* WriterSpec: the producers' calls of the writer, on the clock.           *)
(***************************************************************************)
WriterSpecInit ==
  /\ SessInit /\ DiagInit /\ WdInit /\ WriterInit /\ PpInit /\ RecvInit /\ ExtInit
  /\ threshold = 2 /\ thresholdMs = 2 * Second

WriterNext ==
  \/ (\E n \in {2, 200} : WriteCall(n))
  \/ (\E n \in {2, 200} : WriteMetadataCall(n))
  \/ WrSubmitFlush
  \/ (\E p \in Producers : \/ WrLockM(p) \/ WrLockF(p)
                           \/ WrWrite(p) \/ WrWriteHalf(p) \/ WrWriteRest(p)
                           \/ WrCheck(p) \/ WrSync(p) \/ WrClose(p) \/ WrReopen(p)
                           \/ WrFlushed(p))
  \/ WrTick

WriterSpec == WriterSpecInit /\ [][WriterNext]_vars

(***************************************************************************)
(* The post-processor (processor.PostProcessor) and the recv loop's        *)
(* handling of Word and Step messages.  A string is a sequence of          *)
(* one-character strings.                                                  *)
(***************************************************************************)
UpperCase == <<"A", "B", "C", "D", "E", "F", "G", "H", "I", "J", "K", "L", "M",
               "N", "O", "P", "Q", "R", "S", "T", "U", "V", "W", "X", "Y", "Z">>
LowerCase == <<"a", "b", "c", "d", "e", "f", "g", "h", "i", "j", "k", "l", "m",
               "n", "o", "p", "q", "r", "s", "t", "u", "v", "w", "x", "y", "z">>

\* unicode.IsUpper, on ASCII
IsUpper(c) == \E i \in DOMAIN UpperCase : UpperCase[i] = c

RECURSIVE ToLower(_)
\* strings.ToLower, on ASCII
ToLower(w) ==
  IF Len(w) = 0 THEN <<>>
  ELSE <<IF IsUpper(Head(w))
           THEN LowerCase[CHOOSE i \in DOMAIN UpperCase : UpperCase[i] = Head(w)]
           ELSE Head(w)>> \o ToLower(Tail(w))

\* unicode.IsSpace, on ASCII
WhiteSpace == {" ", "\t", "\n", "\r", "\f"}

RECURSIVE TrimLeft(_)
TrimLeft(w) ==
  IF Len(w) > 0 /\ Head(w) \in WhiteSpace THEN TrimLeft(Tail(w)) ELSE w

RECURSIVE TrimRight(_)
TrimRight(w) ==
  IF Len(w) > 0 /\ w[Len(w)] \in WhiteSpace
    THEN TrimRight(SubSeq(w, 1, Len(w) - 1)) ELSE w

\* strings.TrimSpace
TrimSpace(w) == TrimRight(TrimLeft(w))

abbreviations ==
  { <<"d", "r", ".">>, <<"m", "r", ".">>, <<"m", "r", "s", ".">>, <<"m", "s", ".">>,
    <<"p", "r", "o", "f", ".">>, <<"s", "r", ".">>, <<"j", "r", ".">>,
    <<"e", "t", "c", ".">>, <<"v", "s", ".">>, <<"e", ".", "g", ".">>,
    <<"i", ".", "e", ".">>, <<"n", "o", ".">>, <<"v", "o", "l", ".">>,
    <<"r", "e", "v", ".">>, <<"e", "s", "t", ".">>,
    <<"a", "p", "p", "r", "o", "x", ".">> }

endsWithSentenceEnd(word) ==
  IF Len(word) = 0 THEN FALSE
  ELSE IF ToLower(word) \in abbreviations THEN FALSE
  ELSE word[Len(word)] \in {".", "!", "?"}

startsWithCapital(word) ==
  LET w == TrimSpace(word)
  IN  IF Len(w) = 0 THEN FALSE ELSE IsUpper(w[1])

\* ProcessWord: the check for a long silence
PauseElapsed(has, last, t) == has /\ last # NoTime /\ t - last > PauseThreshold

\* ProcessWord: the check for a sentence boundary
SentenceBoundary(has, last, word) ==
  has /\ endsWithSentenceEnd(last) /\ startsWithCapital(word)

SoftWrapNoSpace(lineLen, wordLen) == lineLen > 0 /\ lineLen + wordLen > MaxLineLength

SoftWrapAnywhere(lineLen, wordLen) == lineLen + 1 + wordLen > MaxLineLength

\* ProcessWord: the check of the line length
SoftWrap(lineLen, wordLen) == lineLen > 0 /\ lineLen + 1 + wordLen > MaxLineLength

NewLine(fires) == IF fires THEN <<"\n">> ELSE <<>>

\* ProcessWord(text): the output, and the fields of the post-processor after it
ProcessWord(text) ==
  LET word == TrimSpace(text)
      pause == PauseElapsed(hasContent, lastWordTime, now)
      line1 == IF pause THEN <<>> ELSE currentLine
      sentence == SentenceBoundary(hasContent, lastWord, word)
      line2 == IF sentence THEN <<>> ELSE line1
      wrap == SoftWrap(Len(line2), Len(word))
      line3 == IF wrap THEN <<>> ELSE line2
      space == IF Len(line3) > 0 THEN <<" ">> ELSE <<>>
  IN  IF Len(word) = 0
        THEN [output |-> <<>>, hasContent |-> hasContent, lastWord |-> lastWord,
              lastWordTime |-> lastWordTime, currentLine |-> currentLine]
        ELSE [output |-> NewLine(pause) \o NewLine(sentence) \o NewLine(wrap)
                           \o space \o word,
              hasContent |-> TRUE, lastWord |-> word, lastWordTime |-> now,
              currentLine |-> line3 \o space \o word]

ParagraphBreakShort == <<"\n">>

ParagraphBreak == <<"\n", "\n">>

\* ProcessEndOfTurn(): the output, and the fields of the post-processor after it
ProcessEndOfTurn ==
  IF ~hasContent
    THEN [output |-> <<>>, lastWord |-> lastWord, currentLine |-> currentLine]
    ELSE [output |-> ParagraphBreak, lastWord |-> <<>>, currentLine |-> <<>>]

\* StepMessage.IsEndOfTurn; the probabilities are in tenths
IsEndOfTurn(prs) ==
  IF Len(prs) < 3 THEN FALSE
  ELSE IF Len(prs[3]) = 0 THEN FALSE
  ELSE prs[3][1] > 5

Rep(c, n) == [i \in 1..n |-> c]

\* the texts of the Word messages: a word, a capitalised sentence end, a
\* capitalised abbreviation, a word in white space, white space, the metadata
\* prefix, a word longer than a line, and a word of half a line
Texts ==
  { <<"o", "k">>, <<"H", "i", ".">>, <<"D", "r", ".">>, <<" ", "o", "k", "\n">>,
    <<" ">>, <<"%", "%">>, <<"A">> \o Rep("a", MaxLineLength), Rep("b", 40) }

\* the prs of the Step messages: too few heads, an empty third head, a third
\* head at the limit and one above it
Predictions ==
  { <<<<0>>, <<0>>>>, <<<<0>>, <<0>>, <<>>>>, <<<<0>>, <<0>>, <<5>>>>,
    <<<<0>>, <<0>>, <<6>>>> }

\* Tracker.RecordWordMessage, as the recv loop calls it
WordRecorded(outputProduced) ==
  IF outputProduced
    THEN /\ lastWordAt' = now
         /\ audioBaseline' = UpdatedBaseline[1]
         /\ audioBaselineCount' = UpdatedBaseline[2]
    ELSE UNCHANGED <<lastWordAt, audioBaseline, audioBaselineCount>>

recvFrame == <<sessVars, timeVars, scriptVars, wdVars, writerVars, extVars>>

\* case *client.WordMessage, up to the call of the writer
RecvWord(text) ==
  LET r == ProcessWord(text)
      word == TrimSpace(text)
  IN  /\ rv.pc = "recv" /\ received < MaxMsgs
      /\ hasContent' = r.hasContent /\ lastWord' = r.lastWord
      /\ lastWordTime' = r.lastWordTime /\ currentLine' = r.currentLine
      /\ WordRecorded(r.output # <<>>)
      /\ rv' = [pc |-> IF r.output # <<>> THEN "write" ELSE "recv", kind |-> "word",
                output |-> r.output, saw |-> FALSE]
      /\ received' = received + 1
      /\ said' = IF Len(word) > 0 THEN Append(said, word) ELSE said
      /\ gap' = (gap \/ (Len(word) > 0 /\ lastWordTime # NoTime
                         /\ now - lastWordTime > PauseThreshold))
      /\ UNCHANGED <<recvFrame, lastConnectAt, lastStepAt, lastAudioActiveAt,
                     lastAudioLevel, audioActiveStreak, transcript, turns>>

\* case *client.StepMessage, up to the call of the writer
RecvStep(prs) ==
  LET isEOT == IsEndOfTurn(prs)
      r == ProcessEndOfTurn
  IN  /\ rv.pc = "recv" /\ received < MaxMsgs
      /\ lastStepAt' = now
      /\ received' = received + 1
      /\ turns' = (turns \/ isEOT)
      /\ IF isEOT
           THEN /\ lastWord' = r.lastWord /\ currentLine' = r.currentLine
                /\ rv' = [pc |-> IF r.output # <<>> THEN "write" ELSE "recv",
                          kind |-> "step", output |-> r.output, saw |-> hasContent]
           ELSE /\ UNCHANGED <<lastWord, currentLine>>
                /\ rv' = [pc |-> "recv", kind |-> "step", output |-> <<>>,
                          saw |-> FALSE]
      /\ UNCHANGED <<recvFrame, lastConnectAt, lastAudioActiveAt, lastWordAt, levelVars,
                     hasContent, lastWordTime, transcript, said, gap>>

\* MultiWriter.Write(data), as a whole: the data goes to the file as it is
Write(t, data) == Append(t, [by |-> "recv", data |-> data])

\* MultiWriter.WriteMetadata(data), as a whole: the data goes to the file as it is
WriteMetadata(t, data) == Append(t, [by |-> "heartbeat", data |-> data])

\* if output != "": multiWriter.Write(output)
RecvWrite ==
  /\ rv.pc = "write"
  /\ transcript' = Write(transcript, rv.output)
  /\ rv' = [rv EXCEPT !.pc = "recv", !.saw = FALSE]
  /\ UNCHANGED <<recvFrame, trkVars, ppVars, received, said, gap, turns>>

\* fmt.Sprintf("%%%% time: %s\n", ...): T stands for the formatted time
HeartbeatLine ==
  <<"%", "%", " ", "t", "i", "m", "e", ":", " ", "T", "\n">>

ByHeartbeat(e) == e.by = "heartbeat"

\* the heartbeat: multiWriter.WriteMetadata(timestamp)
Heartbeat ==
  /\ Len(SelectSeq(transcript, ByHeartbeat)) < MaxMeta
  /\ transcript' = WriteMetadata(transcript, HeartbeatLine)
  /\ UNCHANGED <<recvFrame, trkVars, ppVars, rv, received, said, gap, turns>>

PostTick ==
  /\ now < MaxPostTime
  /\ now' = now + 1
  /\ UNCHANGED <<sessVars, threshold, trkVars, scriptVars, compVars>>

(***************************************************************************)
(* PostSpec: the recv loop feeding the post-processor and the writer,      *)
(* next to the heartbeat, on the clock.                                    *)
(***************************************************************************)
PostInit == Init

PostNext ==
  \/ (\E text \in Texts : RecvWord(text))
  \/ (\E prs \in Predictions : RecvStep(prs))
  \/ RecvWrite
  \/ Heartbeat
  \/ PostTick

PostSpec == PostInit /\ [][PostNext]_vars


(***************************************************************************)
(* The heartbeat goroutine (run.go 176-201) on a clock of tenths of a      *)
(* second.  The goroutine's own steps take no time: the clock only moves   *)
(* when the goroutine is blocked in its select or has returned.            *)
(***************************************************************************)
hbFrame == <<sessVars, timeVars, trkVars, scriptVars, wdVars, writerVars, ppVars,
             heartbeatInterval, overflowed, lateVars>>
hbRecv == <<rv, received, said, gap, turns>>
sideRest == <<periodicStopped, pluginCancelled, meetingCancelled, finalFlush>>

\* time.NewTicker(d): a tick every d, the first one d after the creation
TickerFires(t, start, d) == t > start /\ (t - start) % d = 0

\* if cfg.Metadata.HeartbeatInterval > 0: go func() { ticker := time.NewTicker(...)
HbStart ==
  /\ hbPc = "off" /\ heartbeatInterval > 0 /\ ~heartbeatDone
  /\ hbPc' = "first"
  /\ hbStart' = hbNow
  /\ UNCHANGED <<hbFrame, hbRecv, transcript, sideVars, hbTickCh, hbNow, hbStopAt>>

HbFirstSilent ==
  /\ hbPc = "first"
  /\ hbPc' = "select"
  /\ UNCHANGED <<hbFrame, hbRecv, transcript, sideVars, hbTickCh, hbNow, hbStart, hbStopAt>>

\* Write initial timestamp
HbFirst ==
  /\ hbPc = "first"
  /\ transcript' = WriteMetadata(transcript, HeartbeatLine)
  /\ hbPc' = "select"
  /\ UNCHANGED <<hbFrame, hbRecv, sideVars, hbTickCh, hbNow, hbStart, hbStopAt>>

\* select: case t := <-ticker.C: write the timestamp
HbOnTick ==
  /\ hbPc = "select" /\ hbTickCh > 0
  /\ hbTickCh' = hbTickCh - 1
  /\ transcript' = WriteMetadata(transcript, HeartbeatLine)
  /\ UNCHANGED <<hbFrame, hbRecv, sideVars, hbPc, hbNow, hbStart, hbStopAt>>

\* select: case <-heartbeatDone: return (the deferred ticker.Stop runs)
HbReturn ==
  /\ hbPc = "select" /\ heartbeatDone
  /\ hbPc' = "returned"
  /\ UNCHANGED <<hbFrame, hbRecv, transcript, sideVars, hbTickCh, hbNow, hbStart, hbStopAt>>

\* shutdown: close(heartbeatDone)
HbStop ==
  /\ ~heartbeatDone
  /\ heartbeatDone' = TRUE
  /\ hbStopAt' = hbNow
  /\ UNCHANGED <<hbFrame, hbRecv, transcript, sideRest, hbPc, hbTickCh, hbNow, hbStart>>

\* the goroutine has a step to take
HbBusy ==
  \/ hbPc = "first"
  \/ hbPc = "select" /\ (hbTickCh > 0 \/ heartbeatDone)

\* a tenth of a second passes; the ticker sends unless its channel is full
HbClock ==
  /\ hbNow < MaxHbTime /\ ~HbBusy
  /\ hbNow' = hbNow + 1
  /\ hbTickCh' = IF hbPc \in {"first", "select"}
                      /\ TickerFires(hbNow', hbStart, heartbeatInterval * Tenths)
                   THEN TrySend(hbTickCh, TickerCap) ELSE hbTickCh
  /\ UNCHANGED <<hbFrame, hbRecv, transcript, sideVars, hbPc, hbStart, hbStopAt>>

(***************************************************************************)
(* HeartbeatSpec: the heartbeat from the start of the goroutine to the     *)
(* shutdown signal and after, for intervals of 0, 1 and 2 seconds.         *)
(***************************************************************************)
HeartbeatInit ==
  /\ SessInit /\ DiagInit /\ WdInit /\ WriterIdle /\ PpInit /\ RecvInit /\ SideInit
  /\ HbOff /\ heartbeatInterval \in 0..2 /\ overflowed = 0 /\ LateInit
  /\ threshold = 2 /\ thresholdMs = 2 * Second

HeartbeatNext ==
  \/ HbStart \/ HbFirst \/ HbOnTick \/ HbReturn \/ HbStop \/ HbClock

HeartbeatSpec == HeartbeatInit /\ [][HeartbeatNext]_vars

(***************************************************************************)
(* The end of the shutdown sequence (run.go 595-601) next to the           *)
(* goroutines that the sequence has told to stop and does not wait for.    *)
(***************************************************************************)
\* multiWriter.Write("\n"), by the supervisor
FinalNewline(t) == Append(t, [by |-> "main", data |-> <<"\n">>])

\* shutdown: the final newline and multiWriter.Flush()
FinalFlush ==
  /\ heartbeatDone /\ ~finalFlush
  /\ transcript' = FinalNewline(transcript)
  /\ finalFlush' = TRUE
  /\ UNCHANGED <<hbFrame, hbRecv, heartbeatDone, periodicStopped, pluginCancelled,
                 meetingCancelled, hbPc, hbTickCh, hbNow, hbStart, hbStopAt>>

\* the recv worker receives until the shutdown sequence has begun
FlushRecvWord == ~heartbeatDone /\ RecvWord(<<"o", "k">>)

\* a Step that is an end of turn
FlushRecvStep == ~heartbeatDone /\ RecvStep(<<<<0>>, <<0>>, <<6>>>>)

(***************************************************************************)
(* FlushSpec: the heartbeat goroutine, with an interval of a second, and a *)
(* recv worker from their start to the shutdown sequence and after its     *)
(* final flush.                                                            *)
(***************************************************************************)
FlushNext ==
  \/ HbStart \/ HbFirst \/ HbOnTick \/ HbReturn \/ HbStop \/ HbClock
  \/ FlushRecvWord \/ FlushRecvStep \/ RecvWrite
  \/ FinalFlush

FlushInit == HeartbeatInit /\ heartbeatInterval = 1

FlushSpec == FlushInit /\ [][FlushNext]_vars


(***************************************************************************)
(* The meeting detector (part_009) and the callbacks runTranscription      *)
(* gives it (run.go 219-288).  A batch of lsof output is the number of its *)
(* lines of each kind.  Timestamps, the meeting code, the title and the    *)
(* duration are one letter each.                                           *)
(***************************************************************************)
detFrame == <<sessVars, timeVars, trkVars, scriptVars, wdVars, writerVars, ppVars,
              hbRecv, hbVars, overflowed, plVars, perVars, lastVars>>
detSide == <<heartbeatDone, periodicStopped, pluginCancelled, finalFlush>>

\* lines with "zoom.us", lines with "Google" and "1e100.net", lines with
\* "Google" alone
Batches == [zoomus : {1, 2}, chrome1e100 : {9, 10}, chrome : {0, 10}]

\* zoomCount, meetCount of processLsofBatch
Count(p, lines) == IF p = "zoom" THEN lines.zoomus ELSE lines.chrome1e100

Threshold(p) == IF p = "zoom" THEN zoomThreshold ELSE meetThreshold

\* zoomInMeeting := zoomCount >= d.zoomThreshold, and the same for Meet
InMeeting(p, lines) == Count(p, lines) >= Threshold(p)

\* a callback chosen from the batch alone, without d.state
CallbackLevel(p, lines) ==
  IF InMeeting(p, lines) THEN <<"start">>
  ELSE IF state[p] THEN <<"end">>
  ELSE <<>>

\* the callback processLsofBatch invokes for a platform, if any
Callback(p, lines) ==
  IF InMeeting(p, lines) /\ ~state[p] THEN <<"start">>
  ELSE IF ~InMeeting(p, lines) /\ state[p] THEN <<"end">>
  ELSE <<>>

\* getMeetDetailsFromChrome(): an error, a code without a title, a code and a title
MeetDetails == {"none", "code", "title"}

ZoomStarted ==
  <<"%", "%", " ", "m", "e", "e", "t", "i", "n", "g", " ", "s", "t", "a",
    "r", "t", "e", "d", ":", " ", "T", " ", "z", "o", "o", "m", "\n">>

MeetStartedTitle ==
  <<"%", "%", " ", "m", "e", "e", "t", "i", "n", "g", " ", "s", "t", "a",
    "r", "t", "e", "d", ":", " ", "T", " ", "m", "e", "e", "t", "/", "c",
    "\n", "%", "%", " ", "m", "e", "e", "t", "i", "n", "g", " ", "t", "i",
    "t", "l", "e", ":", " ", "t", "\n">>

MeetStartedCode ==
  <<"%", "%", " ", "m", "e", "e", "t", "i", "n", "g", " ", "s", "t", "a",
    "r", "t", "e", "d", ":", " ", "T", " ", "m", "e", "e", "t", "/", "c",
    "\n">>

MeetStarted ==
  <<"%", "%", " ", "m", "e", "e", "t", "i", "n", "g", " ", "s", "t", "a",
    "r", "t", "e", "d", ":", " ", "T", " ", "m", "e", "e", "t", "\n">>

ZoomEnded ==
  <<"%", "%", " ", "m", "e", "e", "t", "i", "n", "g", " ", "e", "n", "d",
    "e", "d", ":", " ", "T", " ", "z", "o", "o", "m", " ", "(", "d", "u",
    "r", "a", "t", "i", "o", "n", ":", " ", "D", "m", ")", "\n">>

MeetEnded ==
  <<"%", "%", " ", "m", "e", "e", "t", "i", "n", "g", " ", "e", "n", "d",
    "e", "d", ":", " ", "T", " ", "m", "e", "e", "t", " ", "(", "d", "u",
    "r", "a", "t", "i", "o", "n", ":", " ", "D", "m", ")", "\n">>

Enabled(p) == IF p = "zoom" THEN zoomDetection ELSE meetDetection

\* the first callback of NewDetector: what it writes with WriteMetadata
StartLines(p, details) ==
  IF ~Enabled(p) THEN <<>>
  ELSE IF p = "zoom" THEN <<ZoomStarted>>
  ELSE IF details = "title" THEN <<MeetStartedTitle>>
  ELSE IF details = "code" THEN <<MeetStartedCode>>
  ELSE <<MeetStarted>>

\* the second callback, writing nothing
EndLinesNone(p) == <<>>

\* the second callback of NewDetector
EndLines(p) ==
  IF ~Enabled(p) THEN <<>>
  ELSE IF p = "zoom" THEN <<ZoomEnded>> ELSE <<MeetEnded>>

\* the WriteMetadata calls of one batch for one platform
MeetingLines(p, lines, details) ==
  IF Callback(p, lines) = <<"start">> THEN StartLines(p, details)
  ELSE IF Callback(p, lines) = <<"end">> THEN EndLines(p)
  ELSE <<>>

RECURSIVE WriteAll(_, _)
WriteAll(t, datas) ==
  IF datas = <<>> THEN t ELSE WriteAll(WriteMetadata(t, Head(datas)), Tail(datas))

Starts(p) == Len(SelectSeq(cbLog[p], LAMBDA c : c = "start"))

\* go detector.Start(meetingCtx): lsof is started
DetStart ==
  /\ detPc = "off" /\ (zoomDetection \/ meetDetection) /\ ~meetingCancelled
  /\ detPc' = "scan"
  /\ UNCHANGED <<detFrame, transcript, sideVars, zoomDetection, meetDetection, state,
                 lastLevel, cbLog>>

\* the scanner reads a batch up to "=======": d.processLsofBatch(lines), Zoom
\* first, then Meet, then the update of d.state
ProcessLsofBatch(lines, details) ==
  /\ detPc = "scan"
  /\ Starts("zoom") + Starts("meet")
       + Cardinality({p \in Platforms : Callback(p, lines) = <<"start">>}) <= MaxMeetings
  /\ cbLog' = [p \in Platforms |-> cbLog[p] \o Callback(p, lines)]
  /\ transcript' = WriteAll(transcript, MeetingLines("zoom", lines, details)
                                          \o MeetingLines("meet", lines, details))
  /\ state' = [p \in Platforms |-> InMeeting(p, lines)]
  /\ lastLevel' = [p \in Platforms |-> InMeeting(p, lines)]
  /\ UNCHANGED <<detFrame, sideVars, zoomDetection, meetDetection, detPc>>

\* getMeetDetailsFromChrome is called on a rising edge of Meet only
DetBatch ==
  \E lines \in Batches :
    \E details \in IF Callback("meet", lines) = <<"start">> THEN MeetDetails ELSE {"none"} :
      ProcessLsofBatch(lines, details)

\* lsof exits, killed through meetingCtx or by itself: scanner.Scan() returns
\* false, cmd.Wait(), Start returns and is not called again
DetExit ==
  /\ detPc = "scan"
  /\ detPc' = "done"
  /\ UNCHANGED <<detFrame, transcript, sideVars, zoomDetection, meetDetection, state,
                 lastLevel, cbLog>>

\* runTranscription returns: the deferred meetingDetectorCancel()
DetCancel ==
  /\ ~meetingCancelled
  /\ meetingCancelled' = TRUE
  /\ UNCHANGED <<detFrame, transcript, detSide, detVars>>

(***************************************************************************)
(* DetectorSpec: the detector under every sequence of batches, and         *)
(* FairDetectorSpec, where the goroutine of Start goes on reading batches  *)
(* as long as lsof prints them.                                            *)
(***************************************************************************)
DetectorInit ==
  /\ SessInit /\ DiagInit /\ WdInit /\ WriterIdle /\ PpInit /\ RecvInit /\ SideInit
  /\ HbIdle /\ overflowed = 0
  /\ DetOff /\ zoomDetection \in BOOLEAN /\ meetDetection \in BOOLEAN
  /\ PlIdle /\ PerIdle /\ LastIdle
  /\ threshold = 2 /\ thresholdMs = 2 * Second

DetectorNext == DetStart \/ DetBatch \/ DetExit \/ DetCancel

DetectorSpec == DetectorInit /\ [][DetectorNext]_vars

FairDetectorSpec == DetectorSpec /\ WF_vars(DetBatch)

(***************************************************************************)
(* The plugin runner (runner.go): Execute for the trigger on_start, and    *)
(* executePlugin for each plugin it starts.  A plugin is the sh process    *)
(* exec.CommandContext starts, which the context kills at the deadline,    *)
(* and the processes sh has started itself, which the context does not     *)
(* kill and which hold the write end of the stdout pipe until they exit.   *)
(* The clock counts seconds and only moves when no goroutine has a step.   *)
(***************************************************************************)
plFrame == <<sessVars, timeVars, trkVars, scriptVars, wdVars, writerVars, ppVars,
             hbRecv, sideVars, hbVars, overflowed, detVars, perVars, lastVars>>

Triggers == {"on_start", "on_meeting_start"}

\* what a plugin can print: lines with text, an empty line, a line of blanks
Outputs ==
  { <<>>, <<<<"x">>>>, <<<<"x">>, <<>>, <<" ", "y">>>>, <<<<" ">>, <<"x">>>> }

\* timeout := plugin.Timeout.Duration(); if timeout == 0 { timeout = DefaultTimeout }
Timeout(p) == IF plTimeout[p] = 0 THEN DefaultTimeout ELSE plTimeout[p]

\* the context of context.WithTimeout(ctx, timeout) is done
DeadlinePassed(p) == plStart[p] # NoTime /\ plNow >= plStart[p] + Timeout(p)

\* for _, p := range r.plugins: if p.Trigger == trigger
Matching(trigger) == {p \in Plugins : plTrigger[p] = trigger}

\* nothing is printed to stderr
LoggedNothing(p, what) == plLog

\* fmt.Fprintf(r.stderr, "[plugin/%s] ...")
Logged(p, what) == [plLog EXCEPT ![p] = Append(@, what)]

\* fmt.Sprintf("%%%% %s: %s\n", plugin.Name, line)
Metadata(p, line) == <<"%", "%", " ", p, ":", " ">> \o line \o <<"\n">>

\* only the empty line is skipped
SkippedEmptyOnly(line) == line = <<>>

\* if strings.TrimSpace(line) == "" { continue }
Skipped(line) == TrimSpace(line) = <<>>

\* Execute(ctx, TriggerOnStart, execCtx): a goroutine for every matching
\* plugin, or the return when there is none
ExExecute ==
  /\ exPc = "idle"
  /\ exPc' = IF Matching("on_start") = {} THEN "returned" ELSE "wait"
  /\ plPc' = [p \in Plugins |-> IF p \in Matching("on_start") THEN "start" ELSE plPc[p]]
  /\ plStart' = [p \in Plugins |-> IF p \in Matching("on_start") THEN plNow ELSE plStart[p]]
  /\ UNCHANGED <<plFrame, transcript, plTrigger, plTimeout, proc, pipeHeld, stdoutLines,
                 plIdx, plLog, plEnd, plNow>>

\* StdoutPipe, StderrPipe or cmd.Start() fails: the message, return
PlSpawnFail(p) ==
  /\ plPc[p] = "start"
  /\ plLog' = Logged(p, "failed to start")
  /\ plPc' = [plPc EXCEPT ![p] = "returned"]
  /\ plEnd' = [plEnd EXCEPT ![p] = plNow]
  /\ UNCHANGED <<plFrame, transcript, plTrigger, plTimeout, exPc, proc, pipeHeld, stdoutLines,
                 plIdx, plStart, plNow>>

\* cmd.Start() succeeds; the two scanner goroutines, wg.Wait()
PlSpawn(p) ==
  /\ plPc[p] = "start"
  /\ proc' = [proc EXCEPT ![p] = "running"]
  /\ plPc' = [plPc EXCEPT ![p] = "read"]
  /\ UNCHANGED <<plFrame, transcript, plTrigger, plTimeout, exPc, pipeHeld, stdoutLines,
                 plIdx, plLog, plStart, plEnd, plNow>>

\* sh exits by itself, with what it has printed, leaving a process of its own
\* behind or not
ProcExit(p, status, lines, forked) ==
  /\ proc[p] = "running"
  /\ proc' = [proc EXCEPT ![p] = status]
  /\ stdoutLines' = [stdoutLines EXCEPT ![p] = lines]
  /\ pipeHeld' = [pipeHeld EXCEPT ![p] = forked]
  /\ UNCHANGED <<plFrame, transcript, plTrigger, plTimeout, exPc, plPc, plIdx, plLog,
                 plStart, plEnd, plNow>>

\* the deadline of the context: exec kills sh, and sh alone
ProcKill(p, lines, forked) ==
  /\ proc[p] = "running" /\ DeadlinePassed(p)
  /\ proc' = [proc EXCEPT ![p] = "killed"]
  /\ stdoutLines' = [stdoutLines EXCEPT ![p] = lines]
  /\ pipeHeld' = [pipeHeld EXCEPT ![p] = forked]
  /\ UNCHANGED <<plFrame, transcript, plTrigger, plTimeout, exPc, plPc, plIdx, plLog,
                 plStart, plEnd, plNow>>

\* the process sh has left behind exits
ChildExit(p) ==
  /\ pipeHeld[p]
  /\ pipeHeld' = [pipeHeld EXCEPT ![p] = FALSE]
  /\ UNCHANGED <<plFrame, transcript, plTrigger, plTimeout, exPc, plPc, proc, stdoutLines,
                 plIdx, plLog, plStart, plEnd, plNow>>

\* scanner.Scan() returns false when no process holds the pipe: wg.Wait() returns
PlEof(p) ==
  /\ plPc[p] = "read" /\ proc[p] # "running" /\ ~pipeHeld[p]
  /\ plPc' = [plPc EXCEPT ![p] = "wait"]
  /\ UNCHANGED <<plFrame, transcript, plTrigger, plTimeout, exPc, proc, pipeHeld, stdoutLines,
                 plIdx, plLog, plStart, plEnd, plNow>>

\* err = cmd.Wait(); if err != nil: the message by ctx.Err(), return
PlWait(p) ==
  /\ plPc[p] = "wait"
  /\ IF proc[p] = "exit0"
       THEN /\ plPc' = [plPc EXCEPT ![p] = "write"]
            /\ UNCHANGED <<plLog, plEnd>>
       ELSE /\ plLog' = Logged(p, IF DeadlinePassed(p) THEN "timed out"
                                                      ELSE "exited with error")
            /\ plPc' = [plPc EXCEPT ![p] = "returned"]
            /\ plEnd' = [plEnd EXCEPT ![p] = plNow]
  /\ UNCHANGED <<plFrame, transcript, plTrigger, plTimeout, exPc, proc, pipeHeld, stdoutLines,
                 plIdx, plStart, plNow>>

\* for _, line := range stdoutLines: one line, skipped or written
PlWriteLine(p) ==
  /\ plPc[p] = "write" /\ plIdx[p] <= Len(stdoutLines[p])
  /\ transcript' = IF Skipped(stdoutLines[p][plIdx[p]]) THEN transcript
                   ELSE WriteMetadata(transcript, Metadata(p, stdoutLines[p][plIdx[p]]))
  /\ plIdx' = [plIdx EXCEPT ![p] = @ + 1]
  /\ UNCHANGED <<plFrame, plTrigger, plTimeout, exPc, plPc, proc, pipeHeld, stdoutLines,
                 plLog, plStart, plEnd, plNow>>

\* the end of the loop: executePlugin returns
PlReturn(p) ==
  /\ plPc[p] = "write" /\ plIdx[p] > Len(stdoutLines[p])
  /\ plPc' = [plPc EXCEPT ![p] = "returned"]
  /\ plEnd' = [plEnd EXCEPT ![p] = plNow]
  /\ UNCHANGED <<plFrame, transcript, plTrigger, plTimeout, exPc, proc, pipeHeld, stdoutLines,
                 plIdx, plLog, plStart, plNow>>

\* wg.Wait() of Execute returns
ExReturn ==
  /\ exPc = "wait" /\ \A p \in Matching("on_start") : plPc[p] = "returned"
  /\ exPc' = "returned"
  /\ UNCHANGED <<plFrame, transcript, plTrigger, plTimeout, plPc, proc, pipeHeld, stdoutLines,
                 plIdx, plLog, plStart, plEnd, plNow>>

\* a goroutine of the runner, or exec's kill, has a step to take
PlBusy ==
  \/ exPc = "idle"
  \/ \E p \in Plugins :
       \/ plPc[p] \in {"start", "wait", "write"}
       \/ plPc[p] = "read" /\ proc[p] # "running" /\ ~pipeHeld[p]
       \/ proc[p] = "running" /\ DeadlinePassed(p)
  \/ exPc = "wait" /\ \A p \in Matching("on_start") : plPc[p] = "returned"

PlClock ==
  /\ plNow < MaxPlTime /\ ~PlBusy
  /\ plNow' = plNow + 1
  /\ UNCHANGED <<plFrame, transcript, plTrigger, plTimeout, exPc, plPc, proc, pipeHeld,
                 stdoutLines, plIdx, plLog, plStart, plEnd>>

(***************************************************************************)
(* PluginSpec: one call of Execute with two plugins configured.            *)
(***************************************************************************)
PluginInit ==
  /\ SessInit /\ DiagInit /\ WdInit /\ WriterIdle /\ PpInit /\ RecvInit /\ SideInit
  /\ HbIdle /\ overflowed = 0 /\ DetIdle /\ PerIdle /\ LastIdle
  /\ PlOff
  /\ plTrigger \in [Plugins -> Triggers]
  /\ plTimeout \in [Plugins -> {0, 2}]
  /\ threshold = 2 /\ thresholdMs = 2 * Second

PluginNext ==
  \/ ExExecute \/ ExReturn \/ PlClock
  \/ \E p \in Plugins :
       \/ PlSpawnFail(p) \/ PlSpawn(p) \/ PlEof(p) \/ PlWait(p) \/ PlWriteLine(p)
       \/ PlReturn(p) \/ ChildExit(p)
       \/ \E lines \in Outputs, forked \in BOOLEAN :
            \/ ProcKill(p, lines, forked)
            \/ \E status \in {"exit0", "exit1"} : ProcExit(p, status, lines, forked)

PluginSpec == PluginInit /\ [][PluginNext]_vars

(***************************************************************************)
(* The periodic loops of the plugin runner (runner.go 89-135).  A ticker   *)
(* can fire at any moment; a select with several channels ready takes any  *)
(* of them.                                                                *)
(***************************************************************************)
perFrame == <<sessVars, timeVars, trkVars, scriptVars, wdVars, writerVars, ppVars,
              recvVars, hbVars, overflowed, detVars, plVars, lastVars>>
perSide == <<heartbeatDone, meetingCancelled, finalFlush>>

\* StartPeriodic(ctx, execCtx): a done channel and a goroutine for every
\* periodic plugin with an interval
StartPeriodic ==
  /\ \A p \in Plugins : perPc[p] = "off"
  /\ \E p \in Plugins : perInterval[p] > 0
  /\ ~periodicStopped
  /\ perPc' = [p \in Plugins |-> IF perInterval[p] > 0 THEN "select" ELSE "off"]
  /\ UNCHANGED <<perFrame, sideVars, perInterval, perDone, perTick, perExecs, ticks>>

\* the ticker of a loop fires: a tick for ticker.C, lost when one is waiting
PerTick(p) ==
  /\ perPc[p] \in {"select", "exec"} /\ ticks < MaxTicks
  /\ perTick' = [perTick EXCEPT ![p] = TrySend(@, TickerCap)]
  /\ ticks' = ticks + 1
  /\ UNCHANGED <<perFrame, sideVars, perInterval, perPc, perDone, perExecs>>

\* case <-ctx.Done(), case <-done: return
PerSelectDone(p) ==
  /\ perPc[p] = "select" /\ (perDone[p] \/ pluginCancelled)
  /\ perPc' = [perPc EXCEPT ![p] = "returned"]
  /\ UNCHANGED <<perFrame, sideVars, perInterval, perDone, perTick, perExecs, ticks>>

\* case <-ticker.C: r.executePlugin(ctx, plugin, config.TriggerPeriodic, execCtx)
PerSelectTick(p) ==
  /\ perPc[p] = "select" /\ perTick[p] > 0
  /\ perTick' = [perTick EXCEPT ![p] = @ - 1]
  /\ perPc' = [perPc EXCEPT ![p] = "exec"]
  /\ perExecs' = [perExecs EXCEPT ![p] = @ + 1]
  /\ UNCHANGED <<perFrame, sideVars, perInterval, perDone, ticks>>

\* executePlugin returns: back to the select
PerExecuted(p) ==
  /\ perPc[p] = "exec"
  /\ perPc' = [perPc EXCEPT ![p] = "select"]
  /\ UNCHANGED <<perFrame, sideVars, perInterval, perDone, perTick, perExecs, ticks>>

\* StopPeriodic(): close(done) for every loop, under periodicMu
StopPeriodic ==
  /\ ~periodicStopped
  /\ perDone' = [p \in Plugins |-> perPc[p] # "off" \/ perDone[p]]
  /\ periodicStopped' = TRUE
  /\ UNCHANGED <<perFrame, perSide, pluginCancelled, perInterval, perPc, perTick,
                 perExecs, ticks>>

\* pluginCancel(), which the shutdown calls after StopPeriodic
PluginCancel ==
  /\ periodicStopped /\ ~pluginCancelled
  /\ pluginCancelled' = TRUE
  /\ UNCHANGED <<perFrame, perSide, periodicStopped, perVars>>

(***************************************************************************)
(* PeriodicSpec: StartPeriodic, the loops and their tickers, StopPeriodic. *)
(***************************************************************************)
PeriodicInit ==
  /\ SessInit /\ DiagInit /\ WdInit /\ WriterIdle /\ PpInit /\ RecvInit /\ SideInit
  /\ HbIdle /\ overflowed = 0 /\ DetIdle /\ PlIdle /\ LastIdle
  /\ PerOff /\ perInterval \in [Plugins -> {0, 1}]
  /\ threshold = 2 /\ thresholdMs = 2 * Second

PeriodicNext ==
  \/ StartPeriodic \/ StopPeriodic \/ PluginCancel
  \/ \E p \in Plugins :
       PerTick(p) \/ PerSelectDone(p) \/ PerSelectTick(p) \/ PerExecuted(p)

PeriodicSpec == PeriodicInit /\ [][PeriodicNext]_vars

(***************************************************************************)
(* findMeetingIntervals of the query tool (last/run.go 538-576).  A line   *)
(* is its two meeting flags; an index is the Go index, from 0; of an       *)
(* interval the two indexes are kept.                                      *)
(***************************************************************************)
LogLines == [IsMeetingStart : BOOLEAN, IsMeetingEnd : BOOLEAN]

RECURSIVE SeqsUpTo(_, _)
SeqsUpTo(S, n) ==
  IF n = 0 THEN {<<>>}
  ELSE LET shorter == SeqsUpTo(S, n - 1)
       IN  shorter \cup {Append(q, x) : q \in {r \in shorter : Len(r) = n - 1}, x \in S}

\* the open meeting closed at a start, one line too late
ClosedAtStartLate(startIdx, i) == [StartIndex |-> startIdx, EndIndex |-> i]

\* MeetingInterval{StartIndex: startIdx, EndIndex: i - 1}
ClosedAtStart(startIdx, i) == [StartIndex |-> startIdx, EndIndex |-> i - 1]

\* MeetingInterval{StartIndex: startIdx, EndIndex: i}
ClosedAtEnd(startIdx, i) == [StartIndex |-> startIdx, EndIndex |-> i]

\* the loop from index i on, then the unclosed meeting
RECURSIVE IntervalsFrom(_, _, _, _)
IntervalsFrom(lines, i, startIdx, found) ==
  IF i = Len(lines)
    THEN IF startIdx # -1 THEN Append(found, ClosedAtEnd(startIdx, Len(lines) - 1))
         ELSE found
  ELSE LET ln == lines[i + 1]
       IN  IF ln.IsMeetingStart
             THEN IntervalsFrom(lines, i + 1, i,
                                IF startIdx # -1 THEN Append(found, ClosedAtStart(startIdx, i))
                                ELSE found)
           ELSE IF ln.IsMeetingEnd /\ startIdx # -1
             THEN IntervalsFrom(lines, i + 1, -1, Append(found, ClosedAtEnd(startIdx, i)))
           ELSE IntervalsFrom(lines, i + 1, startIdx, found)

findMeetingIntervals(lines) == IntervalsFrom(lines, 0, -1, <<>>)

\* intervals := findMeetingIntervals(all)
FindIntervals ==
  /\ lastPc = "input"
  /\ intervals' = findMeetingIntervals(all)
  /\ lastPc' = "done"
  /\ UNCHANGED <<sessVars, timeVars, trkVars, scriptVars, wdVars, writerVars, ppVars,
                 recvVars, sideVars, hbVars, overflowed, detVars, plVars, perVars, all,
                 queryVars, deadAirGen>>

(***************************************************************************)
(* MeetingsSpec: findMeetingIntervals on every list of up to MaxLines      *)
(* lines.                                                                  *)
(***************************************************************************)
MeetingsInit ==
  /\ SessInit /\ DiagInit /\ WdInit /\ WriterIdle /\ PpInit /\ RecvInit /\ SideInit
  /\ HbIdle /\ overflowed = 0 /\ DetIdle /\ PlIdle /\ PerIdle
  /\ all \in SeqsUpTo(LogLines, MaxLines) /\ intervals = <<>> /\ lastPc = "input"
  /\ QueryIdle /\ deadAirGen = 0
  /\ threshold = 2 /\ thresholdMs = 2 * Second

MeetingsNext == FindIntervals

MeetingsSpec == MeetingsInit /\ [][MeetingsNext]_vars

(***************************************************************************)
(* The audio callback of Capture.Start (part_005 111-123) next to a send   *)
(* loop that takes the chunks one by one.                                  *)
(***************************************************************************)
\* the portaudio callback: select { case c.chunks <- chunk: default: }
CaptureChunk ==
  /\ Alive /\ capturing /\ nextFrame <= MaxChunks
  /\ IF Len(queue) < ChannelBufferSize
       THEN queue' = Append(queue, nextFrame) /\ UNCHANGED overflowed
       ELSE overflowed' = overflowed + 1 /\ UNCHANGED queue
  /\ nextFrame' = nextFrame + 1
  /\ UNCHANGED <<supVars, clientVars, chanVars, flagVars, capturing, workerVars,
                 obsVars, panic>>
  /\ UNCHANGED <<timeVars, trkVars, scriptVars, wdVars, writerVars, ppVars, recvVars,
                 sideVars, hbVars, lateVars>>

(***************************************************************************)
(* QueueSpec: the session up to its first workers, then the callback and   *)
(* the send loop.                                                          *)
(***************************************************************************)
QueueNext ==
  \/ Run \/ ConnectOK \/ StartOK
  \/ CaptureChunk
  \/ (\E g \in Gens : \/ SendTake(g) \/ SendSkipP(g) \/ SendSkipR(g)
                      \/ SendLock(g) \/ SendWrite(g))

QueueSpec == Init /\ [][QueueNext]_vars

(***************************************************************************)
(* The query tool: Run (last/run.go 112-201).  A time.Time is a number of  *)
(* minutes after currentTime, negative before it; a time.Duration and the  *)
(* distance of a cutoff from currentTime are int64 numbers of nanoseconds, *)
(* kept as four 16-bit limbs, the low one first, so that they wrap as in   *)
(* Go.  The Raw of a line is its number in its file.                       *)
(***************************************************************************)
LimbBase == Pow2(16)

\* the int64 of a natural number below 2^31
Int64(n) == <<n % LimbBase, (n \div LimbBase) % LimbBase, 0, 0>>

RECURSIVE AddLimbs(_, _, _)
AddLimbs(a, b, carry) ==
  IF a = <<>> THEN <<>>
  ELSE LET s == Head(a) + Head(b) + carry
       IN  <<s % LimbBase>> \o AddLimbs(Tail(a), Tail(b), s \div LimbBase)

\* a + b on int64: the carry out of the top limb is lost
Add64(a, b) == AddLimbs(a, b, 0)

\* -a on int64
Neg64(a) == Add64([i \in 1..4 |-> LimbBase - 1 - a[i]], Int64(1))

RECURSIVE MulLimbs(_, _, _)
MulLimbs(a, k, carry) ==
  IF a = <<>> THEN <<>>
  ELSE LET s == Head(a) * k + carry
       IN  <<s % LimbBase>> \o MulLimbs(Tail(a), k, s \div LimbBase)

\* a * k on int64, for a natural number k below 2^15
Mul64(a, k) == MulLimbs(a, k, 0)

\* time.Duration(n), for an int n of either sign
Duration(n) == IF n >= 0 THEN Int64(n) ELSE Neg64(Int64(0 - n))

IsNegative(a) == a[4] >= LimbBase \div 2

\* a < b on int64
Less64(a, b) ==
  IF IsNegative(a) # IsNegative(b) THEN IsNegative(a)
  ELSE \E i \in 1..4 : a[i] < b[i] /\ \A j \in (i + 1)..4 : a[j] = b[j]

\* d * time.Second: a second is 1000 milliseconds of 1000 microseconds of 1000
\* nanoseconds
TimesSecond(d) == Mul64(Mul64(Mul64(d, 1000), 1000), 1000)

\* d * time.Minute: time.Minute is 60 * time.Second
TimesMinute(d) == Mul64(TimesSecond(d), 60)

\* d * time.Hour: time.Hour is 60 * time.Minute
TimesHour(d) == Mul64(TimesMinute(d), 60)

\* the distance of the time t from currentTime, in nanoseconds
Nanos(t) == TimesMinute(Duration(t))

\* the zero time.Time: long before every timestamp
ZeroTime == 0 - 1000000

\* t.Before(u), t.After(u), t.Equal(u) for a time t in minutes and a distance u
Before(t, u) == Less64(Nanos(t), u)
After(t, u) == Less64(u, Nanos(t))
Equal(t, u) == Nanos(t) = u

\* the days before the first of January of year y
DaysBeforeYear(y) ==
  365 * (y - 1) + ((y - 1) \div 4) - ((y - 1) \div 100) + ((y - 1) \div 400)

IsLeap(y) == y % 4 = 0 /\ (y % 100 # 0 \/ y % 400 = 0)

daysBefore == <<0, 31, 59, 90, 120, 151, 181, 212, 243, 273, 304, 334>>

\* time.Date(y, m, d, ...) as a number of days: a month outside 1..12 moves
\* the year, a day outside the month runs into the months around it
DateDays(y, m, d) ==
  LET yy == y + ((m - 1) \div 12)
      mi == (m - 1) % 12
  IN  DaysBeforeYear(yy) + daysBefore[mi + 1]
        + (IF IsLeap(yy) /\ mi >= 2 THEN 1 ELSE 0) + d - 1

\* t.AddDate(0, months, days) as a distance from t, in minutes, where the
\* offset of t's location is fixed
AddDate(date, months, days) ==
  (DateDays(date[1], date[2] + months, date[3] + days)
     - DateDays(date[1], date[2], date[3])) * 24 * 60

\* computeTimeCutoff(n, unit, baseTime), as a distance from baseTime
computeTimeCutoff(n, unit, date) ==
  CASE unit = UnitMinutes -> TimesMinute(Neg64(Duration(n)))
    [] unit = UnitHours -> TimesHour(Neg64(Duration(n)))
    [] unit = UnitDays -> Nanos(AddDate(date, 0, 0 - n))
    [] unit = UnitWeeks -> Nanos(AddDate(date, 0, 0 - 7 * n))
    [] unit = UnitMonths -> Nanos(AddDate(date, 0 - n, 0))
    [] OTHER -> Int64(0)

\* a lower bound that leaves out the lines at the cutoff
AtOrAfterStrict(t, lower) == After(t, lower)

\* ln.Timestamp.After(lower) || ln.Timestamp.Equal(lower)
AtOrAfter(t, lower) == After(t, lower) \/ Equal(t, lower)

\* ln.Timestamp.Before(upper) || ln.Timestamp.Equal(upper)
AtOrBefore(t, upper) == Before(t, upper) \/ Equal(t, upper)

filterByTimeRange(lines, lower, upper) ==
  SelectSeq(lines, LAMBDA ln : AtOrAfter(ln.Timestamp, lower)
                               /\ AtOrBefore(ln.Timestamp, upper))

filterByTimeAfter(lines, cutoff) ==
  SelectSeq(lines, LAMBDA ln : AtOrAfter(ln.Timestamp, cutoff))

filterByTimeBefore(lines, cutoff) ==
  SelectSeq(lines, LAMBDA ln : AtOrBefore(ln.Timestamp, cutoff))

removeAllMetadata(lines) == SelectSeq(lines, LAMBDA ln : ~ln.IsMetadata)

\* for _, ln := range lines { fmt.Fprintln(stdout, ln.Raw) }
Printed(lines) == [i \in 1..Len(lines) |-> lines[i].Raw]

queryFrame == <<sessVars, timeVars, trkVars, scriptVars, wdVars, writerVars, ppVars,
                recvVars, sideVars, hbVars, overflowed, detVars, plVars, perVars,
                all, intervals, lastPc, deadAirGen>>

\* case UnitMinutes, UnitHours, UnitDays, UnitWeeks, UnitMonths
RunUnits ==
  /\ runPc = "filter" /\ args.unit # UnitMeetings
  /\ LET cutoff == computeTimeCutoff(args.n, args.unit, args.date)
         filtered == IF args.asOfUsed
                       THEN filterByTimeRange(allLines, cutoff, Int64(0))
                       ELSE filterByTimeAfter(allLines, cutoff)
     IN  stdout' = Printed(IF ~args.keepMeta THEN removeAllMetadata(filtered)
                           ELSE filtered)
  /\ runPc' = "done"
  /\ UNCHANGED <<queryFrame, corpus, args, allLines>>

(***************************************************************************)
(* WindowSpec: the time units, on every sorted list of up to MaxShown      *)
(* lines around the two ends of the window.  N is small, negative, or      *)
(* large enough for N minutes or N hours to pass 2^63 nanoseconds.         *)
(***************************************************************************)
BaseIdle ==
  /\ SessInit /\ DiagInit /\ WdInit /\ WriterIdle /\ PpInit /\ RecvInit /\ SideInit
  /\ HbIdle /\ overflowed = 0 /\ DetIdle /\ PlIdle /\ PerIdle
  /\ FindIdle /\ deadAirGen = 0
  /\ threshold = 2 /\ thresholdMs = 2 * Second

TimeUnits == {UnitMinutes, UnitHours, UnitDays, UnitWeeks, UnitMonths}

Counts(unit) ==
  CASE unit = UnitMinutes -> {0 - 1, 0, 1, 2, 200000000}
    [] unit = UnitHours -> {0, 1, 2, 3000000}
    [] OTHER -> {0, 1, 2}

Dates(unit) ==
  IF unit = UnitMonths THEN {<<2024, 3, 31>>, <<2025, 1, 15>>} ELSE {<<2024, 3, 31>>}

QueryArgs(units) ==
  UNION {{[n |-> n, unit |-> u, asOfUsed |-> o, keepMeta |-> k, date |-> d] :
            n \in Counts(u), o \in BOOLEAN, k \in BOOLEAN, d \in Dates(u)} : u \in units}

\* the length of a unit in minutes
UnitLength(unit) ==
  CASE unit = UnitMinutes -> 1
    [] unit = UnitHours -> 60
    [] unit = UnitDays -> 24 * 60
    [] unit = UnitWeeks -> 7 * 24 * 60

\* asOfTime - N * unit, in minutes after asOfTime; a month is a calendar month
WindowLower(a) ==
  IF a.unit = UnitMonths THEN AddDate(a.date, 0 - a.n, 0)
  ELSE 0 - a.n * UnitLength(a.unit)

\* the timestamps around the two ends of the window
Stamps(a) == {0 - 1, 0, 1, WindowLower(a) - 1, WindowLower(a)}

ParsedLines(stamps, metas, starts, ends) ==
  [Timestamp : stamps, Raw : {0}, IsMetadata : metas, IsMeetingStart : starts,
   IsMeetingEnd : ends]

\* sort.Slice has run: no line is before one in front of it
Sorted(lines) ==
  \A i, j \in 1..Len(lines) : i < j => ~(lines[j].Timestamp < lines[i].Timestamp)

Numbered(lines) == [i \in 1..Len(lines) |-> [lines[i] EXCEPT !.Raw = i]]

\* Run goes on only when len(allLines) is not 0 (run.go 140-142)
SortedLists(symbols, n) ==
  {Numbered(q) : q \in {r \in SeqsUpTo(symbols, n) : Len(r) > 0 /\ Sorted(r)}}

WindowInit ==
  /\ BaseIdle
  /\ corpus = <<>>
  /\ args \in QueryArgs(TimeUnits)
  /\ allLines \in SortedLists(ParsedLines(Stamps(args), BOOLEAN, {FALSE}, {FALSE}),
                              MaxShown)
  /\ stdout = <<>> /\ runPc = "filter"

WindowNext == RunUnits

WindowSpec == WindowInit /\ [][WindowNext]_vars

(***************************************************************************)
(* The meetings unit of Run (last/run.go 179-198) and                      *)
(* gatherAndPrintMeetings (578-598).  The line ====== is printed as        *)
(* Separator; the lines of the files are numbered from 1.                  *)
(***************************************************************************)
Separator == 0

\* every line of a selected interval is printed
KeptAll(ln, keepAllMetadata) == TRUE

\* skip metadata unless it's meeting start/end
Kept(ln, keepAllMetadata) ==
  keepAllMetadata \/ ~(ln.IsMetadata /\ ~(ln.IsMeetingStart \/ ln.IsMeetingEnd))

\* for i := iv.StartIndex; i <= iv.EndIndex; i++
IntervalLines(lines, iv, keepAllMetadata) ==
  Printed(SelectSeq(SubSeq(lines, iv.StartIndex + 1, iv.EndIndex + 1),
                    LAMBDA ln : Kept(ln, keepAllMetadata)))

\* a separator after every interval, the last one too
SeparatorAfterEach(ivIdx, len) == <<Separator>>

\* if ivIdx < len(intervals)-1 { fmt.Fprintln(w, "======") }
SeparatorAfter(ivIdx, len) == IF ivIdx < len - 1 THEN <<Separator>> ELSE <<>>

RECURSIVE GatherFrom(_, _, _, _)
GatherFrom(lines, ivs, ivIdx, keepAllMetadata) ==
  IF ivIdx = Len(ivs) THEN <<>>
  ELSE IntervalLines(lines, ivs[ivIdx + 1], keepAllMetadata)
         \o SeparatorAfter(ivIdx, Len(ivs))
         \o GatherFrom(lines, ivs, ivIdx + 1, keepAllMetadata)

gatherAndPrintMeetings(lines, ivs, keepAllMetadata) ==
  GatherFrom(lines, ivs, 0, keepAllMetadata)

\* the first n intervals
SelectFirst(found, n) == SubSeq(found, 1, n)

\* intervals[len(intervals)-n:], for 0 <= n <= len(intervals)
SelectLast(found, n) == SubSeq(found, Len(found) - n + 1, Len(found))

\* case UnitMeetings.  A negative n passes len(intervals) >= n, and
\* intervals[len(intervals)-n:] then has its low index above the length:
\* the run-time panic "slice bounds out of range".
RunMeetings ==
  /\ runPc = "filter" /\ args.unit = UnitMeetings
  /\ LET linesBeforeAsOf == filterByTimeBefore(allLines, Int64(0))
         found == findMeetingIntervals(linesBeforeAsOf)
     IN  IF Len(found) = 0
           THEN stdout' = stdout /\ runPc' = "done"
         ELSE IF Len(found) >= args.n
           THEN IF Len(found) - args.n > Len(found)
                  THEN stdout' = stdout /\ runPc' = "panic"
                ELSE /\ stdout' = gatherAndPrintMeetings(linesBeforeAsOf,
                                    SelectLast(found, args.n), args.keepMeta)
                     /\ runPc' = "done"
         ELSE /\ stdout' = gatherAndPrintMeetings(linesBeforeAsOf, found, args.keepMeta)
              /\ runPc' = "done"
  /\ UNCHANGED <<queryFrame, corpus, args, allLines>>

(***************************************************************************)
(* MeetSpec: the meetings unit on every sorted list of up to MaxMeetLines  *)
(* plain lines, markers and other metadata lines at asOfTime or after it,  *)
(* and on the corpus of scenario S6; N is from -1 to 3.                    *)
(***************************************************************************)
PlainLine(t) ==
  [Timestamp |-> t, Raw |-> 0, IsMetadata |-> FALSE, IsMeetingStart |-> FALSE,
   IsMeetingEnd |-> FALSE]

StartMarker(t) == [PlainLine(t) EXCEPT !.IsMetadata = TRUE, !.IsMeetingStart = TRUE]

EndMarker(t) == [PlainLine(t) EXCEPT !.IsMetadata = TRUE, !.IsMeetingEnd = TRUE]

\* %% meeting title: ..., or any other line that starts with %%
OtherMeta(t) == [PlainLine(t) EXCEPT !.IsMetadata = TRUE]

MeetLines(stamps) ==
  UNION {{PlainLine(t), StartMarker(t), EndMarker(t), OtherMeta(t)} : t \in stamps}

\* plain, Zoom start, plain, Zoom end, plain, Meet start, title, plain, Meet
\* end, plain
S6Corpus ==
  Numbered(<<PlainLine(0 - 9), StartMarker(0 - 8), PlainLine(0 - 7), EndMarker(0 - 6),
             PlainLine(0 - 5), StartMarker(0 - 4), OtherMeta(0 - 4), PlainLine(0 - 3),
             EndMarker(0 - 2), PlainLine(0 - 1)>>)

MeetCounts == {0 - 1, 0, 1, 2, 3}

MeetArgs ==
  {[n |-> n, unit |-> UnitMeetings, asOfUsed |-> o, keepMeta |-> k, date |-> <<2024, 3, 31>>] :
     n \in MeetCounts, o \in BOOLEAN, k \in BOOLEAN}

MeetInit ==
  /\ BaseIdle
  /\ corpus = <<>>
  /\ args \in MeetArgs
  /\ allLines \in SortedLists(MeetLines({0, 1}), MaxMeetLines) \cup {S6Corpus}
  /\ stdout = <<>> /\ runPc = "filter"

MeetNext == RunMeetings

MeetSpec == MeetInit /\ [][MeetNext]_vars

(***************************************************************************)
(* Reading the files: readAndParseAll (last/run.go 311-332),               *)
(* readAndParseFile (334-379) and parseLogLineWithHeartbeat (409-491).  A  *)
(* file is the time in its name (ZeroTime when the name holds none) and    *)
(* its lines; a line is its kind and, for a heartbeat and a line of the    *)
(* old format, the time written in it.  The Raw of a parsed line is the    *)
(* number of its file and its number in the file.                          *)
(***************************************************************************)
Rejected(hb) == [ok |-> FALSE, ln |-> PlainLine(hb), hb |-> hb]

Accepted(ln, hb) == [ok |-> TRUE, ln |-> ln, hb |-> hb]

\* a plain line is taken whether or not there is a timestamp for it
PlainAcceptedAlways(hb) == TRUE

\* !currentHeartbeat.IsZero()
PlainAccepted(hb) == hb # ZeroTime

parseLogLineWithHeartbeat(raw, currentHeartbeat) ==
  CASE raw.kind = "legacy" -> Accepted(PlainLine(raw.time), raw.time)
    [] raw.kind = "heartbeat" -> Accepted(OtherMeta(raw.time), raw.time)
    [] raw.kind = "badtime" -> Rejected(currentHeartbeat)
    [] raw.kind = "started" -> Accepted(StartMarker(currentHeartbeat), currentHeartbeat)
    [] raw.kind = "ended" -> Accepted(EndMarker(currentHeartbeat), currentHeartbeat)
    [] raw.kind = "meta" -> Accepted(OtherMeta(currentHeartbeat), currentHeartbeat)
    [] OTHER -> IF PlainAccepted(currentHeartbeat)
                  THEN Accepted(PlainLine(currentHeartbeat), currentHeartbeat)
                ELSE Rejected(currentHeartbeat)

\* for scanner.Scan() { ... }, from line i of file number f on
RECURSIVE ScanFrom(_, _, _, _, _)
ScanFrom(file, f, i, currentHeartbeat, lines) ==
  IF i > Len(file.lines) THEN lines
  ELSE LET raw == file.lines[i]
           parsed == parseLogLineWithHeartbeat(raw, currentHeartbeat)
       IN  IF raw.kind = "blank" THEN ScanFrom(file, f, i + 1, currentHeartbeat, lines)
           ELSE ScanFrom(file, f, i + 1, parsed.hb,
                         IF parsed.ok
                           THEN Append(lines, [parsed.ln EXCEPT !.Raw = <<f, i>>])
                         ELSE lines)

\* currentHeartbeat starts as the time of the file name or as the zero time
readAndParseFile(file, f) == ScanFrom(file, f, 1, file.seed, <<>>)

RECURSIVE ParseFilesFrom(_, _)
ParseFilesFrom(files, f) ==
  IF f > Len(files) THEN <<>>
  ELSE readAndParseFile(files[f], f) \o ParseFilesFrom(files, f + 1)

readAndParseAll(files) == ParseFilesFrom(files, 1)

\* allLines, err := readAndParseAll(dir); if len(allLines) == 0 { return nil }
ReadAndParseAll ==
  /\ runPc = "read"
  /\ allLines' = readAndParseAll(corpus)
  /\ runPc' = IF Len(allLines') = 0 THEN "done" ELSE "sort"
  /\ UNCHANGED <<queryFrame, corpus, args, stdout>>

Orders(n) == {p \in [1..n -> 1..n] : \A i, j \in 1..n : p[i] = p[j] => i = j}

\* the orders sort.Slice may leave: the lines are those given, and no line
\* stands behind one that its timestamp is before.  sort.Slice is not
\* stable, so lines of one timestamp come in any order.
SortSliceResults(lines) ==
  {q \in {[i \in 1..Len(lines) |-> lines[p[i]]] : p \in Orders(Len(lines))} :
     Sorted(q)}

\* sort.Slice(allLines, func(i, j int) bool { ...Timestamp.Before(...) })
SortSlice ==
  /\ runPc = "sort"
  /\ allLines' \in SortSliceResults(allLines)
  /\ runPc' = "filter"
  /\ UNCHANGED <<queryFrame, corpus, args, stdout>>

(***************************************************************************)
(* LastSpec: the whole of Run on one or two files of MaxFileLines lines    *)
(* between them: heartbeats of two minutes ago and of one minute ago, a    *)
(* heartbeat with a date that does not parse, the two markers, another     *)
(* metadata line, plain lines, blank lines and a line of the old format.   *)
(***************************************************************************)
RawLines ==
  {[kind |-> "heartbeat", time |-> 0 - 2], [kind |-> "heartbeat", time |-> 0 - 1],
   [kind |-> "legacy", time |-> 0 - 1]}
    \cup {[kind |-> k, time |-> 0] : k \in {"badtime", "started", "ended", "meta",
                                             "plain", "blank"}}

Seeds == {ZeroTime, 0 - 3}

FilesOf(n) == [seed : Seeds, lines : {q \in SeqsUpTo(RawLines, n) : Len(q) = n}]

FilesUpTo(n) == [seed : Seeds, lines : SeqsUpTo(RawLines, n)]

Corpora ==
  {<<a>> : a \in FilesUpTo(MaxFileLines)}
    \cup UNION {{<<a, b>> : a \in FilesOf(k), b \in FilesUpTo(MaxFileLines - k)} :
                  k \in 0..MaxFileLines}

LastArgs ==
  {[n |-> 5, unit |-> UnitMinutes, asOfUsed |-> FALSE, keepMeta |-> k,
    date |-> <<2024, 3, 31>>] : k \in BOOLEAN}
    \cup {[n |-> 1, unit |-> UnitMeetings, asOfUsed |-> FALSE, keepMeta |-> FALSE,
           date |-> <<2024, 3, 31>>]}

LastInit ==
  /\ BaseIdle
  /\ corpus \in Corpora
  /\ args \in LastArgs
  /\ allLines = <<>> /\ stdout = <<>> /\ runPc = "read"

LastNext == ReadAndParseAll \/ SortSlice \/ RunUnits \/ RunMeetings

LastSpec == LastInit /\ [][LastNext]_vars

(***************************************************************************)
(* The supervisor's state machine.                                         *)
(***************************************************************************)
ReconnectPcs == {"R1", "R2", "RcClose", "RcLoop", "RcSleep", "RcDial", "RcOk", "RcFail"}
ShutdownPcs == {"Sd1", "SdStop", "SdClose", "SdFlush"}

SupStateOf(x) ==
  CASE x = "Idle" -> "Idle"
    [] x \in {"Connecting", "Starting"} -> "Connecting"
    [] x = "Main" -> "Streaming"
    [] x \in ReconnectPcs -> "Reconnecting"
    [] x \in ShutdownPcs -> "ShuttingDown"
    [] OTHER -> "Exited"

SupState == SupStateOf(pc)

Pos(s, x) == CHOOSE i \in 1..Len(s) : s[i] = x

\* frame f is inside SendAudio, or its send error is about to be recorded
InFlight(f) == \E g \in Gens : sw[g].f = f /\ sw[g].pc \in {"cs", "post"}

(***************************************************************************)
(* C1  Frame integrity.  The frames on the wire are in the order in which  *)
(* SendAudio accepted them; every frame whose SendAudio call has returned  *)
(* is on the wire or its send error is recorded by RecordSendError; and    *)
(* the call for a frame submitted while the recorder is neither paused nor *)
(* reconnecting does return (it does not meet a nil connection), so no     *)
(* such frame is silently lost.                                            *)
(***************************************************************************)
C1_FrameIntegrity ==
  /\ \A i, j \in 1..Len(wire) :
       i < j => /\ wire[i] \in Range(submitted)
                /\ wire[j] \in Range(submitted)
                /\ Pos(submitted, wire[i]) < Pos(submitted, wire[j])
  /\ \A f \in Range(submitted) :
       f \in Range(wire) \/ f \in sendErrs \/ InFlight(f)
  /\ \A g \in Gens :
       sw[g].pc = "cs" /\ sw[g].ok => closed \/ conn # NilConn
  /\ Range(wire) \cap sendErrs = {}

\* one frame went out on a second connection and the send of another failed
C1_Witness ==
  /\ wire # <<>> /\ sendErrs # {}
  /\ gen >= 2

(***************************************************************************)
(* C2  A transport failure never ends the session by itself: once a worker *)
(* error has started a reconnect, the session is over (the supervisor is   *)
(* shutting down or has returned, or the process has died) only if the     *)
(* reconnect context is cancelled.                                         *)
(***************************************************************************)
C2_TransportFailureNotFatal ==
  (reason = "error" /\ (panic # "none" \/ pc \in ShutdownPcs \cup {"Exited"}))
    => ctxCancelled

(***************************************************************************)
(* C3  At most one live STT connection: the only connection that can be    *)
(* open is the client's current one, so the old connection is closed       *)
(* before the new one is dialled.                                          *)
(***************************************************************************)
C3_OneLiveConnection ==
  /\ Cardinality(open) <= 1
  /\ open \subseteq {conn}
  /\ \A g \in Gens : rw[g].pc = "read" /\ rw[g].rc \in open => rw[g].rc = conn

\* streaming again on a second connection, the first one closed
C3_Witness == pc = "Main" /\ dials >= 2 /\ open = {conn} /\ gen >= 2

(***************************************************************************)
(* C4  (as claimed) The supervisor only makes the transitions Idle ->      *)
(* Connecting, Connecting -> Streaming, Streaming -> Reconnecting,         *)
(* Reconnecting -> Streaming, Reconnecting -> ShuttingDown, Streaming ->   *)
(* ShuttingDown and ShuttingDown -> Exited; Exited is terminal.            *)
(***************************************************************************)
ClaimedTransitions ==
  { <<"Idle", "Connecting">>, <<"Connecting", "Streaming">>,
    <<"Streaming", "Reconnecting">>, <<"Reconnecting", "Streaming">>,
    <<"Reconnecting", "ShuttingDown">>, <<"Streaming", "ShuttingDown">>,
    <<"ShuttingDown", "Exited">> }

C5_CancelledReconnectExits ==
  /\ pc = "RcFail" => ctxCancelled
  /\ stopDuringReconnect /\ exitCause = "reconnect" => ctxCancelled /\ panic # "Close"

(***************************************************************************)
(* C6  Backoff: the delay slept before attempt n of one reconnect is       *)
(* min(2^(n-1), 60) seconds, and the loop is left only with a connection   *)
(* or with a cancelled context.                                            *)
(***************************************************************************)
C6_Backoff ==
  /\ pc \in {"RcSleep", "RcDial"} =>
       attempt >= 1 /\ delay = Min(Pow2(attempt - 1), MaxDelay)
  /\ pc = "RcOk" => conn # NilConn
  /\ pc = "RcFail" => ctxCancelled

\* the eighth attempt sleeps the capped delay
C6_Witness == pc = "RcSleep" /\ attempt = 8 /\ delay = MaxDelay

(***************************************************************************)
(* C7  The post-processor has a single consumer: at no time are two recv   *)
(* workers inside ProcessWord / ProcessEndOfTurn.                          *)
(***************************************************************************)
C7_SingleConsumer == Cardinality(inPP) <= 1

(***************************************************************************)
(* C8  (as claimed) A frame the send loop takes while the recorder is      *)
(* paused or reconnecting is dropped: it is never passed to SendAudio, and *)
(* the dropped-chunk counter counts each dropped frame once.               *)
(***************************************************************************)
C8_TakenWhileSkippingIsDropped ==
  /\ \A g \in Gens : sw[g].c => sw[g].pc \in {"skipP", "skipR"}
  /\ chunksDropped = Cardinality(dropped)

(***************************************************************************)
(* C8  (amended) A frame for which the send loop's shouldSkip, run after   *)
(* the frame is taken, reads paused or reconnecting as set is dropped: it  *)
(* is never passed to SendAudio, and the dropped-chunk counter counts each *)
(* dropped frame once.                                                     *)
(***************************************************************************)
C8_SkippedIsDropped ==
  /\ skipCond \subseteq dropped
  /\ dropped \cap Range(submitted) = {}
  /\ \A g \in Gens : sw[g].pc \in {"send", "cs", "post"} => sw[g].f \notin skipCond
  /\ chunksDropped = Cardinality(dropped)

\* one frame was dropped during a reconnect and another one was submitted
C8_Witness == skipCond # {} /\ submitted # <<>> /\ ~paused

(***************************************************************************)
(* C9.  Scenario S4: with a threshold of 2 s, audio of level 0.2 in every  *)
(* frame, a Step message every 500 ms and no Word message ever, once the   *)
(* condition has lasted 2 s the watchdog has signalled dead air and the    *)
(* supervisor reconnects.  The formula allows the watchdog two seconds     *)
(* more: from the fourth second on there is a dead-air signal in           *)
(* deadAirCh or a reconnect has been started.                              *)
(***************************************************************************)
C9_DeadAirReconnect ==
  now >= 4 => deadAirCh > 0 \/ pc \in ReconnectPcs \/ gen >= 2

\* the scenario has run for MaxTime seconds, the audio loud in every frame
C9_Witness ==
  /\ now = MaxTime /\ lastStepAt = now /\ framesInSecond = audioActiveMinStreak
  /\ lastAudioLevel = 200000 /\ lastAudioActiveAt = NoTime

(***************************************************************************)
(* C10.  IsDeadAir(threshold) is true if and only if the last Step message *)
(* is at most 5 s old, there is a last-audio-active time and it is at most *)
(* threshold old, there is no last word output or it is more than          *)
(* threshold old, and, if there is no last word output, the connection has *)
(* been up for at least threshold.                                         *)
(***************************************************************************)
C10_IsDeadAirIff ==
  IsDeadAir(threshold) <=>
    /\ lastStepAt # NoTime /\ now - lastStepAt <= 5
    /\ lastAudioActiveAt # NoTime /\ now - lastAudioActiveAt <= threshold
    /\ lastWordAt = NoTime \/ now - lastWordAt > threshold
    /\ lastWordAt = NoTime => lastConnectAt # NoTime /\ now - lastConnectAt >= threshold

\* the states in which the claim and the code part: no word output is on
\* record and the connection is exactly threshold old
C10_Witness ==
  /\ ~IsDeadAir(threshold)
  /\ lastStepAt # NoTime /\ lastAudioActiveAt # NoTime /\ lastWordAt = NoTime
  /\ now - lastConnectAt = threshold

(***************************************************************************)
(* C11.  The watchdog never blocks and at most one dead-air signal is      *)
(* pending.  As claimed: the watchdog sends its signal only while the      *)
(* recorder is neither paused nor reconnecting.                            *)
(***************************************************************************)
C11_NoSignalWhileSkipping ==
  [][/\ deadAirCh' <= DeadAirCap
     /\ wd.pc = "send" /\ wd'.pc = "wait" => ~ShouldSkip(paused, reconnecting)]_vars

(***************************************************************************)
(* C11, amended.  The watchdog's send is always enabled and at most one    *)
(* signal is pending; a tick on which shouldSkip() reads the recorder as   *)
(* paused or reconnecting enqueues nothing, nothing but the watchdog's     *)
(* send puts a signal in deadAirCh, and after that send (reached when      *)
(* shouldSkip() read neither and IsDeadAir was true) exactly one signal is *)
(* pending.                                                                *)
(***************************************************************************)
C11_Watchdog ==
  /\ [](wd.pc = "send" => ENABLED WdSend)
  /\ [][/\ deadAirCh' <= DeadAirCap
        /\ deadAirCh' > deadAirCh => wd.pc = "send" /\ wd'.pc = "wait"
        /\ wd.pc = "send" /\ wd'.pc = "wait" => deadAirCh' = DeadAirCap
        /\ wd.pc = "readR" /\ wd'.pc = "wait" =>
             ShouldSkip(wd.p, reconnecting) /\ deadAirCh' = deadAirCh
        /\ wd.pc = "readR" /\ wd'.pc = "dead" => ~wd.p /\ ~reconnecting]_vars

\* the watchdog is about to send while a signal is pending and the recorder
\* has been paused since shouldSkip() read it
C11_Witness == wd.pc = "send" /\ deadAirCh = DeadAirCap /\ paused

(***************************************************************************)
(* C12.  As claimed: for every positive threshold the interval is          *)
(* min(threshold / 2, 1 s), and not below 100 ms.                          *)
(***************************************************************************)
C12_IntervalHalfCapped ==
  interval # 0 =>
    interval = (IF Min(thresholdMs \div 2, Second) < MinInterval
                  THEN MinInterval ELSE Min(thresholdMs \div 2, Second))

(***************************************************************************)
(* C12, amended.  For every positive threshold the interval is 1 s when    *)
(* the threshold is 1 s or more, and otherwise threshold / 2, not below    *)
(* 100 ms.                                                                 *)
(***************************************************************************)
C12_Interval ==
  interval # 0 =>
    /\ thresholdMs >= Second => interval = Second
    /\ thresholdMs < Second /\ thresholdMs >= 2 * MinInterval =>
         interval = thresholdMs \div 2
    /\ thresholdMs < 2 * MinInterval => interval = MinInterval

\* a threshold between 1 s and 2 s, for which the interval is 1 s
C12_Witness == thresholdMs = 1500 /\ interval = Second

\* where the chunks of call c are in the file
ChunksOf(c) == {i \in 1..Len(disk) : disk[i].call = c}

\* the number of bytes of call c in the file
BytesOf(c) == SumLen(SelectSeq(disk, LAMBDA ch : ch.call = c))

(***************************************************************************)
(* C13.  Writes are serialized: the chunks of a call are next to each      *)
(* other in the file, a call that has returned has all its bytes there, a  *)
(* call whose bytes are only partly there is the last in the file, and a   *)
(* call that returned before another was submitted is before it in the     *)
(* file.                                                                   *)
(***************************************************************************)
C13_SerializedWrites ==
  /\ \A i, k \in 1..Len(disk) :
       i < k /\ disk[i].call = disk[k].call =>
         \A j \in i..k : disk[j].call = disk[i].call
  /\ \A c \in returned : BytesOf(c) = calls[c].size
  /\ \A c \in 1..Len(calls) :
       ChunksOf(c) # {} /\ BytesOf(c) # calls[c].size =>
         disk[Len(disk)].call = c /\ wr[calls[c].by] = [pc |-> "write2", call |-> c]
  /\ \A b \in 1..Len(calls) : \A a \in calls[b].before :
       \A i \in ChunksOf(a), j \in ChunksOf(b) : i < j

\* two producers have called the writer at overlapping times, both calls are
\* in the file, in two chunks each
C13_Witness ==
  /\ Len(calls) = 2 /\ calls[2].before = {} /\ calls[1].by # calls[2].by
  /\ Cardinality(ChunksOf(1)) = 2 /\ Cardinality(ChunksOf(2)) = 2

(***************************************************************************)
(* C14.  The file is append-only: whatever step is taken (a write, a sync, *)
(* the close and the reopen of a flush), what was in the file stays where  *)
(* it was, and the file is never shorter than before.                      *)
(***************************************************************************)
C14_AppendOnly ==
  [][/\ Len(disk') >= Len(disk)
     /\ SubSeq(disk', 1, Len(disk)) = disk
     /\ SumLen(disk') >= SumLen(disk)]_vars

\* a flush has closed and reopened a file that held bytes before the session
\* and bytes of the session
C14_Witness ==
  /\ reopenOnFlush /\ Len(disk) >= 2 /\ disk[1].call = 0
  /\ \E p \in Producers : wr[p].pc = "flushed"

(***************************************************************************)
(* C20.  As claimed: whenever there are unflushed bytes and no call of the *)
(* writer is under way, the unflushed bytes are fewer than flushSize and   *)
(* less than flushInterval has passed since the last flush.                *)
(***************************************************************************)
C20_FlushedWhenever ==
  fmu = NoProducer /\ bytesWritten > 0 =>
    bytesWritten < FlushSize /\ now - lastFlush < FlushInterval

(***************************************************************************)
(* C20, amended.  On every write the writer flushes if and only if, after  *)
(* the write, the unflushed bytes are at least flushSize or at least       *)
(* flushInterval has passed since the last flush; a flush leaves the       *)
(* unflushed byte count at zero, everything in the file synced and         *)
(* lastFlush at the present time; between calls bytesWritten is the number *)
(* of bytes written since the last sync, and it is below flushSize.        *)
(***************************************************************************)
C20_FlushOnWrite ==
  /\ [](fmu = NoProducer =>
          bytesWritten = SumLen(disk) - synced /\ bytesWritten < FlushSize)
  /\ [][\A p \in Producers :
          /\ wr[p].pc = "check" /\ wr'[p].pc # "check" =>
               (wr'[p].pc = "sync" <=>
                  bytesWritten >= FlushSize \/ now - lastFlush >= FlushInterval)
          /\ wr[p].pc = "flushed" /\ wr'[p].pc # "flushed" =>
               bytesWritten' = 0 /\ synced' = SumLen(disk') /\ lastFlush' = now]_vars

\* a write flushes because of the time, with fewer than flushSize bytes unflushed
C20_Witness ==
  \E p \in Producers \ {"main"} :
    wr[p].pc = "sync" /\ bytesWritten > 0 /\ bytesWritten < FlushSize

RECURSIVE Flatten(_)
\* the concatenation of the data of the calls in es
Flatten(es) == IF es = <<>> THEN <<>> ELSE Head(es).data \o Flatten(Tail(es))

ByRecv(e) == e.by = "recv"

\* what the recv loop has written to the transcript, and what it is about to write
RecvText == Flatten(SelectSeq(transcript, ByRecv))
Pending == IF rv.pc = "write" THEN rv.output ELSE <<>>

RECURSIVE Lines(_)
\* the lines of t
Lines(t) ==
  IF \A i \in DOMAIN t : t[i] # "\n" THEN <<t>>
  ELSE LET i == CHOOSE j \in DOMAIN t : t[j] = "\n" /\ \A k \in 1..(j - 1) : t[k] # "\n"
       IN  <<SubSeq(t, 1, i - 1)>> \o Lines(SubSeq(t, i + 1, Len(t)))

BeginsWithPercents(line) == Len(line) >= 2 /\ line[1] = "%" /\ line[2] = "%"

RECURSIVE LeadingNewLines(_)
LeadingNewLines(t) ==
  IF Len(t) > 0 /\ Head(t) = "\n" THEN 1 + LeadingNewLines(Tail(t)) ELSE 0

RECURSIVE Joined(_, _)
\* text is the words, in order, with one space or one newline between two of them
Joined(text, words) ==
  IF words = <<>> THEN text = <<>>
  ELSE LET w == Head(words)
           rest == SubSeq(text, Len(w) + 1, Len(text))
       IN  /\ Len(text) >= Len(w)
           /\ SubSeq(text, 1, Len(w)) = w
           /\ IF Len(words) = 1 THEN rest = <<>>
              ELSE /\ Len(rest) > 0
                   /\ Head(rest) \in {" ", "\n"}
                   /\ Joined(Tail(rest), Tail(words))

(***************************************************************************)
(* C15  Metadata prefix.  Every line written through WriteMetadata begins  *)
(* with %% followed by white space, and every line written through Write   *)
(* that is not blank does not, once trimmed, begin with %%.  The code does *)
(* not keep this: the text of a Word message is written as it is, so the   *)
(* word "%%" starts a transcript line with the metadata prefix.            *)
(***************************************************************************)
C15_MetadataPrefix ==
  /\ \A i \in DOMAIN transcript :
       transcript[i].by = "heartbeat" =>
         \A l \in DOMAIN Lines(transcript[i].data) :
           LET line == Lines(transcript[i].data)[l]
           IN  Len(line) > 0 =>
                 BeginsWithPercents(line) /\ Len(line) >= 3 /\ line[3] \in WhiteSpace
  /\ \A l \in DOMAIN Lines(RecvText) :
       LET line == TrimSpace(Lines(RecvText)[l])
       IN  Len(line) > 0 => ~BeginsWithPercents(line)

C15_Witness ==
  \E i, j \in DOMAIN transcript :
    /\ transcript[i].by = "heartbeat"
    /\ transcript[j].by = "recv" /\ transcript[j].data = <<"o", "k">>

(***************************************************************************)
(* C16  End of turn.  As claimed: once the recv loop has seen a Step with  *)
(* prs[2][0] > 0.5 while the post-processor has content, the next bytes    *)
(* written to the transcript are "\n\n".  The heartbeat writes to the same *)
(* transcript, and its line can come first.                                *)
(***************************************************************************)
C16_NextBytesAreBreak ==
  [][rv.saw /\ transcript' # transcript
       => transcript' = Append(transcript, [by |-> "recv", data |-> <<"\n", "\n">>])]_vars

(***************************************************************************)
(* C16, amended: once the recv loop has seen such a Step, the next thing   *)
(* it does is to write, and the next bytes it writes to the transcript are *)
(* exactly "\n\n".                                                         *)
(***************************************************************************)
C16_RecvWritesBreak ==
  /\ [](rv.saw => rv.pc = "write")
  /\ [][rv.saw /\ rv' # rv
          => transcript' = Append(transcript, [by |-> "recv", data |-> <<"\n", "\n">>])]_vars

C16_Witness ==
  \E i \in DOMAIN transcript :
    /\ i >= 3
    /\ transcript[i] = [by |-> "recv", data |-> <<"\n", "\n">>]
    /\ transcript[i - 1].by = "heartbeat"
    /\ transcript[i - 2].by = "recv"

(***************************************************************************)
(* C17  Word order.  As long as no word came more than the pause threshold *)
(* after the one before and no Step was an end of turn, the output of the  *)
(* post-processor is the words (trimmed, the blank ones left out) in       *)
(* order, whole, with a single space or a single newline between two.      *)
(***************************************************************************)
C17_WordsInOrder == ~gap /\ ~turns => Joined(RecvText \o Pending, said)

C17_Witness ==
  /\ ~gap /\ ~turns /\ Len(said) >= 2 /\ rv.pc = "recv"
  /\ Len(said[1]) = 40
  /\ RecvText = said[1] \o <<"\n">> \o said[2]

(***************************************************************************)
(* C18  One line break per word.  As claimed: the output of one            *)
(* ProcessWord call begins with at most one newline.  In the code the      *)
(* three rules are three ifs in a row, not an if / else-if chain: after a  *)
(* pause, a capitalised word that follows a sentence end gets two.         *)
(***************************************************************************)
C18_AtMostOneBreak == rv.kind = "word" => LeadingNewLines(rv.output) <= 1

C18_Witness == rv.kind = "word" /\ gap /\ LeadingNewLines(rv.output) = 1

(***************************************************************************)
(* C19  Line length.  The current line is never longer than MaxLineLength, *)
(* unless it is a single word that is longer than that by itself.          *)
(***************************************************************************)
C19_LineLength ==
  Len(currentLine) > MaxLineLength => currentLine = lastWord

C19_Witness ==
  /\ Len(said) >= 2 /\ ~gap /\ ~turns
  /\ Len(said[Len(said) - 1]) + 1 + Len(lastWord) > MaxLineLength
  /\ Len(lastWord) <= MaxLineLength
  /\ currentLine = lastWord

(***************************************************************************)
(* C21  Shutdown order.  As claimed: once the supervisor is in its         *)
(* shutdown sequence, from Streaming or from Reconnecting, the sidecars    *)
(* (heartbeat, periodic plugins, meeting detector) are stopped before the  *)
(* audio source is closed, that before the STT client is closed, that      *)
(* before the writer is flushed, and the sequence runs to its return.  In  *)
(* the code the meeting detector is only cancelled by a deferred call on   *)
(* return, and after a cancelled reconnect wsClient.Close() dies on the    *)
(* nil connection before the writer is flushed.                            *)
(***************************************************************************)
C21_ShutdownOrder ==
  exitCause \in {"stop", "reconnect"} =>
    /\ panic = "none"
    /\ pc \in {"SdStop", "SdClose", "SdFlush", "Exited"}
         => heartbeatDone /\ periodicStopped /\ meetingCancelled
    /\ pc \in {"SdClose", "SdFlush", "Exited"} => ~capturing
    /\ pc \in {"SdFlush", "Exited"} => closed
    /\ pc = "Exited" => finalFlush
    /\ finalFlush => pc = "Exited"

C21_Witness ==
  /\ pc = "Exited" /\ exitCause = "stop" /\ finalFlush /\ closed /\ ~capturing
  /\ heartbeatDone /\ periodicStopped /\ meetingCancelled

HbLines == Len(SelectSeq(transcript, ByHeartbeat))

(***************************************************************************)
(* C22  Heartbeat cadence.  With a positive interval the goroutine writes  *)
(* one "%% time:" line when it starts and one more on every tick of the    *)
(* interval for as long as heartbeatDone is open; with an interval of 1 s, *)
(* when the shutdown signal comes 3.2 s or more after the start, at least  *)
(* 3 such lines are in the file.                                           *)
(***************************************************************************)
C22_HeartbeatCadence ==
  /\ hbPc = "off" => HbLines = 0
  /\ hbPc = "select" /\ ~HbBusy =>
       HbLines = 1 + (hbNow - hbStart) \div (heartbeatInterval * Tenths)
  /\ heartbeatInterval = 1 /\ hbStart # NoTime /\ hbStopAt # NoTime
       /\ hbStopAt - hbStart >= 32
       => HbLines >= 3

C22_Witness ==
  /\ heartbeatInterval = 1 /\ hbPc = "returned"
  /\ hbStopAt - hbStart = 32 /\ HbLines = 4

(***************************************************************************)
(* C29  Audio queue.  As claimed: the queue never holds more than 50       *)
(* chunks, the callback can always deliver or drop its chunk, and every    *)
(* chunk dropped because the queue was full is counted by the dropped      *)
(* counter.  The callback drops the chunk without counting it: the only    *)
(* dropped counter, the tracker's chunksDropped, is incremented by the     *)
(* send loop for the chunks it skips.                                      *)
(***************************************************************************)
C29_BoundedQueueCountsDrops ==
  /\ Len(queue) <= ChannelBufferSize
  /\ chunksDropped >= overflowed

C29_Witness ==
  /\ Len(queue) = ChannelBufferSize /\ overflowed > 0 /\ wire # <<>>

(***************************************************************************)
(* C23  Edge callbacks.  For each platform, a step of the detector invokes *)
(* onMeetingStart once when the platform's level rises from the last batch *)
(* to this one, onMeetingEnd once when it falls, and nothing otherwise;    *)
(* the callbacks of a platform alternate, the first being a start.         *)
(***************************************************************************)
EdgeCallback(before, after) ==
  IF ~before /\ after THEN <<"start">>
  ELSE IF before /\ ~after THEN <<"end">>
  ELSE <<>>

Alternates(log) ==
  \A i \in DOMAIN log : log[i] = IF i % 2 = 1 THEN "start" ELSE "end"

C23_EdgeCallbacks ==
  /\ [](\A p \in Platforms : Alternates(cbLog[p]))
  /\ [][\A p \in Platforms :
          cbLog'[p] = cbLog[p] \o EdgeCallback(lastLevel[p], lastLevel'[p])]_vars

C23_Witness ==
  /\ cbLog["zoom"] = <<"start", "end", "start">>
  /\ cbLog["meet"] = <<"start">>
  /\ lastLevel["zoom"] /\ lastLevel["meet"]

(***************************************************************************)
(* The meeting markers of the transcript, read back from its lines.        *)
(***************************************************************************)
HasPrefix(line, prefix) ==
  Len(line) >= Len(prefix) /\ SubSeq(line, 1, Len(prefix)) = prefix

StartedPrefix == <<"%", "%", " ", "m", "e", "e", "t", "i", "n", "g", " ", "s", "t", "a", "r", "t", "e", "d", ":", " ">>

EndedPrefix == <<"%", "%", " ", "m", "e", "e", "t", "i", "n", "g", " ", "e", "n", "d", "e", "d", ":", " ">>

\* the platform of a marker: the word after the timestamp
PlatformWord(p) ==
  IF p = "zoom" THEN <<"T", " ", "z", "o", "o", "m">> ELSE <<"T", " ", "m", "e", "e", "t">>

IsStarted(line, p) == HasPrefix(line, StartedPrefix \o PlatformWord(p))

IsEnded(line, p) == HasPrefix(line, EndedPrefix \o PlatformWord(p))

\* what a line is for the platform: its `meeting started` line, its `meeting
\* ended` line, or another line
Marker(line, p) ==
  IF IsStarted(line, p) THEN "started" ELSE IF IsEnded(line, p) THEN "ended" ELSE "other"

RECURSIVE Markers(_, _)
Markers(t, p) ==
  IF t = <<>> THEN <<>>
  ELSE LET ls == Lines(Head(t).data)
       IN  [i \in DOMAIN ls |-> Marker(ls[i], p)] \o Markers(Tail(t), p)

\* reading the markers from the last to the first with the number of `meeting
\* ended` lines not yet given to a `meeting started` line: some `meeting
\* started` line of the platform has no `meeting ended` line of its own after it
RECURSIVE Unmatched(_, _)
Unmatched(ms, ends) ==
  IF ms = <<>> THEN FALSE
  ELSE LET before == SubSeq(ms, 1, Len(ms) - 1)
       IN  IF ms[Len(ms)] = "started" THEN ends = 0 \/ Unmatched(before, ends - 1)
           ELSE IF ms[Len(ms)] = "ended" THEN Unmatched(before, ends + 1)
           ELSE Unmatched(before, ends)

Open(p) == Unmatched(Markers(transcript, p), 0)

C25_FailuresNotPropagated ==
  /\ \A p \in Plugins :
       plPc[p] = "returned" =>
         /\ proc[p] = "none" => plLog[p] = <<"failed to start">>
         /\ proc[p] = "exit1" => plLog[p] \in {<<"exited with error">>, <<"timed out">>}
         /\ proc[p] = "killed" => plLog[p] = <<"timed out">>
         /\ proc[p] = "exit0" => plLog[p] = <<>>
  /\ exPc # "idle" => \A p \in Matching("on_start") : plPc[p] # "idle"
  /\ exPc = "returned" => \A p \in Matching("on_start") : plPc[p] = "returned"
  /\ panic = "none" /\ pc = "Idle"

C25_Witness ==
  /\ exPc = "returned"
  /\ plLog["a"] = <<"failed to start">>
  /\ proc["b"] = "exit0" /\ stdoutLines["b"] = <<<<"x">>>>
  /\ \E i \in DOMAIN transcript : transcript[i].data = Metadata("b", <<"x">>)

(***************************************************************************)
(* What a plugin has emitted: the metadata written under its name.         *)
(***************************************************************************)
Emitted(p) ==
  LET own == SelectSeq(transcript, LAMBDA e : HasPrefix(e.data, <<"%", "%", " ", p, ":", " ">>))
  IN  [i \in DOMAIN own |-> own[i].data]

MetadataOf(p, lines) == [i \in DOMAIN lines |-> Metadata(p, lines[i])]

C27_EndsWithinTimeout ==
  \A p \in Plugins :
    /\ plPc[p] \notin {"idle", "returned"} => plNow <= plStart[p] + Timeout(p)
    /\ plPc[p] = "returned" =>
         /\ plEnd[p] <= plStart[p] + Timeout(p)
         /\ proc[p] = "killed" => plLog[p] = <<"timed out">>

C27_Witness ==
  /\ exPc = "returned"
  /\ proc["a"] = "killed" /\ plTimeout["a"] = 0 /\ plEnd["a"] = plStart["a"] + DefaultTimeout
  /\ plLog["a"] = <<"timed out">>

(***************************************************************************)
(* C28  StopPeriodic.  As claimed: once StopPeriodic has returned, no loop *)
(* starts an execution of its plugin.                                      *)
(***************************************************************************)
C28_NoExecutionAfterStop ==
  [][periodicStopped => \A p \in Plugins : perExecs'[p] = perExecs[p]]_vars

C28_Witness ==
  /\ periodicStopped
  /\ \A p \in Plugins : perPc[p] = "returned" /\ perExecs[p] >= 1

(***************************************************************************)
(* C30  Meeting intervals.  For every list of lines the intervals lie in   *)
(* the list, each ends before the next begins, and they cover exactly the  *)
(* lines of a meeting: a line is covered when a `meeting started` line at  *)
(* or before it has no `meeting ended` line between the two.  An interval  *)
(* begins at every `meeting started` line and nowhere else, so that a      *)
(* start seen during a meeting closes the open interval at the line before *)
(* it, an end outside a meeting gives nothing, and the last interval of a  *)
(* meeting never ended reaches the last line.                              *)
(***************************************************************************)
IsStart(i) == all[i + 1].IsMeetingStart

IsEnd(i) == all[i + 1].IsMeetingEnd /\ ~all[i + 1].IsMeetingStart

Indexes == 0..(Len(all) - 1)

InAMeeting(i) ==
  \E j \in Indexes : j <= i /\ IsStart(j) /\ \A k \in Indexes : j < k /\ k < i => ~IsEnd(k)

Covered == {i \in Indexes : \E n \in DOMAIN intervals :
                              intervals[n].StartIndex <= i /\ i <= intervals[n].EndIndex}

C30_MeetingIntervals ==
  lastPc = "done" =>
    /\ \A n \in DOMAIN intervals :
         /\ intervals[n].StartIndex \in Indexes /\ intervals[n].EndIndex \in Indexes
         /\ intervals[n].StartIndex <= intervals[n].EndIndex
         /\ n < Len(intervals) => intervals[n].EndIndex < intervals[n + 1].StartIndex
    /\ Covered = {i \in Indexes : InAMeeting(i)}
    /\ {intervals[n].StartIndex : n \in DOMAIN intervals} = {i \in Indexes : IsStart(i)}

\* end, start, plain, start, end-and-plain: the first end is ignored, the
\* second start closes the first meeting at index 2, the last meeting is open
C30_Witness ==
  /\ lastPc = "done"
  /\ all = << [IsMeetingStart |-> FALSE, IsMeetingEnd |-> TRUE],
              [IsMeetingStart |-> TRUE, IsMeetingEnd |-> FALSE],
              [IsMeetingStart |-> FALSE, IsMeetingEnd |-> FALSE],
              [IsMeetingStart |-> TRUE, IsMeetingEnd |-> FALSE],
              [IsMeetingStart |-> FALSE, IsMeetingEnd |-> FALSE] >>
  /\ intervals = << [StartIndex |-> 1, EndIndex |-> 2], [StartIndex |-> 3, EndIndex |-> 4] >>

(***************************************************************************)
(* C31.  For every time unit the query prints exactly the ordered lines    *)
(* whose timestamp lies in the window: from asOfTime - N * unit to         *)
(* asOfTime with --asof, from now - N * unit on without it; the metadata   *)
(* lines are left out unless --keepmeta is given.                          *)
(***************************************************************************)
InWindow(t) == t >= WindowLower(args) /\ (args.asOfUsed => t <= 0)

Shown(ln) == InWindow(ln.Timestamp) /\ (args.keepMeta \/ ~ln.IsMetadata)

C31_TimeWindow ==
  runPc = "done" /\ args.unit \in TimeUnits => stdout = Printed(SelectSeq(allLines, Shown))

\* the same for the values of N whose N * unit is below 2^63 nanoseconds
C31_TimeWindowInRange ==
  runPc = "done" /\ args.unit \in TimeUnits /\ args.n <= 2 =>
    stdout = Printed(SelectSeq(allLines, Shown))

\* last --asof T 3000000 hours: the line of time T is in the window and
\* nothing is printed
C31_Witness ==
  /\ runPc = "done" /\ args.unit = UnitHours /\ args.n = 3000000 /\ args.asOfUsed
  /\ \E i \in 1..Len(allLines) : allLines[i].Timestamp = 0 /\ ~allLines[i].IsMetadata
  /\ stdout = <<>>

(***************************************************************************)
(* C32  Scenario S6.  On the corpus with a Zoom meeting and then a Meet    *)
(* meeting whose start marker is followed by a title line, last 1 meetings *)
(* without --keepmeta prints the Meet start marker, the title line, the    *)
(* plain line and the Meet end marker, and nothing else.                   *)
(***************************************************************************)
S6Query(keepMeta) ==
  /\ allLines = S6Corpus /\ args.unit = UnitMeetings /\ args.n = 1
  /\ args.keepMeta = keepMeta /\ runPc = "done"

C32_TitleLinePrinted == S6Query(FALSE) => stdout = <<6, 7, 8, 9>>

(***************************************************************************)
(* C32, as the code has it.  Without --keepmeta the two markers and the    *)
(* plain line between them are printed and the title line is not; with     *)
(* --keepmeta the title line is printed too.  Nothing before the Meet      *)
(* start marker or after its end marker is printed, and no separator.      *)
(***************************************************************************)
C32_TitleLineOnlyWithKeepMeta ==
  /\ S6Query(FALSE) => stdout = <<6, 8, 9>>
  /\ S6Query(TRUE) => stdout = <<6, 7, 8, 9>>

C32_Witness == S6Query(FALSE) /\ stdout = <<6, 8, 9>>

(***************************************************************************)
(* C33  last N meetings.  When the run has ended, the output is the lines  *)
(* of the last N intervals among the lines at or before asOfTime, of all   *)
(* of them when there are fewer than N, in file order, where of the        *)
(* metadata lines only the markers are printed unless --keepmeta is given; *)
(* a separator stands between two intervals that follow each other and     *)
(* nowhere else.                                                           *)
(***************************************************************************)
BeforeAsOf == SelectSeq(allLines, LAMBDA ln : ln.Timestamp <= 0)

Chosen ==
  LET found == findMeetingIntervals(BeforeAsOf)
      count == IF args.n < Len(found) THEN args.n ELSE Len(found)
  IN  [j \in 1..count |-> found[Len(found) - count + j]]

\* the printed lines of the interval iv
PrintedBlock(iv) ==
  LET shown == {i \in (iv.StartIndex + 1)..(iv.EndIndex + 1) :
                  \/ args.keepMeta \/ ~BeforeAsOf[i].IsMetadata
                  \/ BeforeAsOf[i].IsMeetingStart \/ BeforeAsOf[i].IsMeetingEnd}
  IN  SelectSeq([i \in 1..Len(BeforeAsOf) |-> i], LAMBDA i : i \in shown)

RECURSIVE JoinedBlocks(_)
JoinedBlocks(blocks) ==
  IF blocks = <<>> THEN <<>>
  ELSE IF Len(blocks) = 1 THEN Head(blocks)
  ELSE Head(blocks) \o <<Separator>> \o JoinedBlocks(Tail(blocks))

C33_LastMeetings ==
  (args.unit = UnitMeetings /\ runPc = "done")
    => stdout = JoinedBlocks([j \in DOMAIN Chosen |-> PrintedBlock(Chosen[j])])

\* three meetings, the last two asked for: a separator between them
C33_Witness ==
  /\ args.unit = UnitMeetings /\ args.n = 2 /\ runPc = "done"
  /\ Len(findMeetingIntervals(BeforeAsOf)) = 3
  /\ Len(stdout) = 3 /\ stdout[2] = Separator

(***************************************************************************)
(* C40  last N meetings with N zero or negative.  The run does not crash   *)
(* and prints nothing, however many intervals there are.                   *)
(***************************************************************************)
C40_NoCrashOnNonPositive ==
  (args.unit = UnitMeetings /\ args.n <= 0) => (runPc # "panic" /\ stdout = <<>>)

\* N = 0 with two meetings in the corpus: the run ends and prints nothing
C40_Witness ==
  /\ args.unit = UnitMeetings /\ args.n = 0 /\ runPc = "done" /\ stdout = <<>>
  /\ Len(findMeetingIntervals(BeforeAsOf)) = 2


(***************************************************************************)
(* C34  Timestamps of the new format.  In a file without lines of the old  *)
(* format a heartbeat line is stamped with its own time, and every plain   *)
(* line, marker and other metadata line that was accepted is stamped with  *)
(* the time of the last heartbeat before it in its file, or with the time  *)
(* of the file name when there is no heartbeat before it; a plain line is  *)
(* accepted when there is such a time and is not accepted when there is    *)
(* none.                                                                   *)
(***************************************************************************)
NewFormat(f) == \A i \in DOMAIN corpus[f].lines : corpus[f].lines[i].kind # "legacy"

HeartbeatsBefore(f, i) ==
  {j \in 1..(i - 1) : corpus[f].lines[j].kind = "heartbeat"}

\* the time of the last heartbeat before line i of file f, else of the name
Inherited(f, i) ==
  IF HeartbeatsBefore(f, i) = {} THEN corpus[f].seed
  ELSE corpus[f].lines[CHOOSE j \in HeartbeatsBefore(f, i) :
                         \A k \in HeartbeatsBefore(f, i) : k <= j].time

AcceptedAt(f, i) == \E n \in DOMAIN allLines : allLines[n].Raw = <<f, i>>

C34_HeartbeatTimestamps ==
  runPc # "read" =>
    \A f \in DOMAIN corpus : NewFormat(f) =>
      /\ \A n \in DOMAIN allLines : allLines[n].Raw[1] = f =>
           LET i == allLines[n].Raw[2]
               raw == corpus[f].lines[i]
           IN  /\ raw.kind = "heartbeat" => allLines[n].Timestamp = raw.time
               /\ raw.kind \in {"plain", "started", "ended", "meta"}
                    => (Inherited(f, i) # ZeroTime
                          => allLines[n].Timestamp = Inherited(f, i))
      /\ \A i \in DOMAIN corpus[f].lines :
           /\ corpus[f].lines[i].kind = "heartbeat" => AcceptedAt(f, i)
           /\ corpus[f].lines[i].kind = "plain"
                => (AcceptedAt(f, i) <=> Inherited(f, i) # ZeroTime)

\* a file without a date in its name: a plain line, a heartbeat of two
\* minutes ago, a heartbeat of one minute ago, a plain line.  The first
\* plain line is dropped, the last has the time of the second heartbeat.
C34_Witness ==
  /\ runPc = "sort" /\ Len(corpus) = 1 /\ corpus[1].seed = ZeroTime
  /\ Len(corpus[1].lines) = 3
  /\ corpus[1].lines[1].kind = "plain"
  /\ corpus[1].lines[2] = [kind |-> "heartbeat", time |-> 0 - 1]
  /\ corpus[1].lines[3].kind = "plain"
  /\ Len(allLines) = 2 /\ allLines[2].Raw = <<1, 3>> /\ allLines[2].Timestamp = 0 - 1

(***************************************************************************)
(* C39  File order among equal timestamps.  Two printed lines of one file  *)
(* with no heartbeat between them in the file are printed in the order     *)
(* they have in the file.                                                  *)
(***************************************************************************)
SameStretch(f, i, j) ==
  \A k \in (i + 1)..j : corpus[f].lines[k].kind \notin {"heartbeat", "legacy"}

C39_FileOrderKept ==
  (runPc = "done" /\ args.unit # UnitMeetings) =>
    \A p, q \in DOMAIN stdout :
      (/\ p < q /\ stdout[p][1] = stdout[q][1]
       /\ LET lo == IF stdout[p][2] < stdout[q][2] THEN stdout[p][2] ELSE stdout[q][2]
              hi == IF stdout[p][2] < stdout[q][2] THEN stdout[q][2] ELSE stdout[p][2]
          IN  SameStretch(stdout[p][1], lo, hi))
        => stdout[p][2] < stdout[q][2]

\* a heartbeat and two plain lines, printed in the order of the file
C39_Witness ==
  /\ runPc = "done" /\ args.unit = UnitMinutes /\ ~args.keepMeta
  /\ Len(corpus) = 1 /\ Len(corpus[1].lines) = 3
  /\ corpus[1].lines[1].kind = "heartbeat"
  /\ stdout = << <<1, 2>>, <<1, 3>> >>


(***************************************************************************)
(* C35  No use of a missing connection.  Neither SendAudio nor Receive is  *)
(* ever called on a client whose connection reconnect has set to nil and   *)
(* not yet replaced: the process never dies in one of the two calls.       *)
(***************************************************************************)
C35_NoNilConnectionUse == panic \notin {"SendAudio", "Receive"}

\* a send loop that passed the paused/reconnecting check before the
\* reconnect began has written to the nil connection
C35_Witness == panic = "SendAudio" /\ reconnecting /\ conn = NilConn


(***************************************************************************)
(* C36  One reconnect for one failure episode.  A reconnect that the main  *)
(* loop begins on a dead-air signal is begun on a signal that was sent     *)
(* while the workers now running were running: a signal sent before a      *)
(* reconnect that has since succeeded begins no further reconnect.         *)
(***************************************************************************)
C36_NoStaleReconnect ==
  [][(pc = "Main" /\ pc' = "R1" /\ reason' = "deadair") => deadAirGen = gen]_vars

\* a reconnect begun on a signal of the running workers
C36_Witness == pc = "R1" /\ reason = "deadair" /\ deadAirGen = gen /\ gen = 1


(***************************************************************************)
(* C37  Nothing after the final flush.  Once the supervisor has written    *)
(* its final newline and flushed, that newline is the last thing that was  *)
(* submitted to the writer.                                                *)
(***************************************************************************)
C37_NothingAfterFinalFlush ==
  finalFlush => transcript[Len(transcript)].by = "main"

\* a session with heartbeats and a word, ended by the final newline after
\* the heartbeat goroutine has returned
C37_Witness ==
  /\ finalFlush /\ hbPc = "returned" /\ rv.pc = "recv"
  /\ Len(transcript) >= 3 /\ transcript[Len(transcript)].by = "main"


(***************************************************************************)
(* C38  One paragraph break for one end of turn.  When the recv loop has   *)
(* written the paragraph break of an end-of-turn Step and the very next    *)
(* message is a Step again, that Step produces no output.                  *)
(***************************************************************************)
C38_OneBreakPerTurn ==
  [][(/\ rv.kind = "step" /\ rv.output = ParagraphBreak /\ rv.pc = "recv"
      /\ received' = received + 1 /\ rv'.kind = "step")
       => rv'.output = <<>>]_vars

\* an end-of-turn Step before the first word: nothing is produced
C38_Witness ==
  /\ rv.kind = "step" /\ turns /\ ~hasContent /\ rv.output = <<>> /\ rv.pc = "recv"
  /\ transcript = <<>>

====
